---- MODULE Spec2Model ----
(***************************************************************************)
(* A model of cargo-refix: the text operation interpreter                  *)
(* (src/operation.rs, src/text.rs), the edit synthesizer                   *)
(* (Operation::compute_diffs), the diagnostic loop of main (src/main.rs)   *)
(* and the patch aggregator and writer (src/apply.rs).                     *)
(*                                                                         *)
(* Text is a sequence of bytes; a byte is a one-character string, and the  *)
(* two bytes "C3" "A9" stand for one two-byte character.  Byte offsets are *)
(* 0-based and ranges half-open, as in Rust.                               *)
(***************************************************************************)
EXTENDS Integers, Sequences, FiniteSets, TLC

VARIABLES
    files,        \* the file system: file name -> content (bytes)
    args,         \* the parsed command line (args::Args)
    overflow_checks, \* the build: whether usize arithmetic panics on overflow
    diags,        \* the diagnostic stream, one record of DiagPool a line
    idx,          \* main: position of the loop in the stream (1-based)
    changeset,    \* main: the accumulated Vec<Change>
    list_summary, \* main: code -> files, as a set of <<code, file>>
    fcs,          \* main: the Vec<FileChangeSet> returned by group
    pending,      \* main: the files of fcs not yet written
    report,       \* main: the two numbers printed before writing
    pc,           \* main: where the run stands
    origin,       \* history: for each Change of changeset, <<diagnostic, span>>
    processed,    \* history: diagnostics handed to compute_diffs, in order
    aborted,      \* history: index of the diagnostic that aborted the loop, or 0
    interp,       \* one Operation::run, step by step
    pre,          \* history: interp before its latest iteration
    call          \* one call of text::template: its inputs and its result

vars == <<files, args, overflow_checks, diags, idx, changeset, list_summary,
          fcs, pending, report, pc, origin, processed, aborted, interp, pre,
          call>>

(***************************************************************************)
(* Bounds of the model.                                                    *)
(***************************************************************************)
\* Longest Change list handed directly to FileChangeSet::group.
MaxPatches == 3
\* Longest diagnostic stream.
MaxDiags == 3
\* Longest operation program (in tokens) of a stepwise Interpreter run.
MaxTokens == 3

(***************************************************************************)
(* Sequences of bytes.                                                     *)
(***************************************************************************)
\* buf[s..e], 0-based and half-open
Slice(buf, s, e) == SubSeq(buf, s + 1, e)

Min(a, b) == IF a <= b THEN a ELSE b

\* The elements of a sequence.
Range(seq) == {seq[k] : k \in 1..Len(seq)}

\* F(e), with e evaluated once however often F uses it.
Let(e, F(_)) == CHOOSE y \in {F(x) : x \in {e}} : TRUE

RECURSIVE Concat(_)
Concat(ss) == IF ss = <<>> THEN <<>> ELSE Head(ss) \o Concat(Tail(ss))

(***************************************************************************)
(* src/apply.rs                                                            *)
(***************************************************************************)
File == {"A", "B"}

\* The file system at the start of the run.
InitFiles == [f \in File |-> IF f = "A" THEN <<"a", "x">> ELSE <<"c">>]

MkPatch(s, e, bytes) == [start |-> s, end |-> e, bytes |-> bytes]

MkChange(f, p) == [file |-> f, patch |-> p]

\* The patches of file f, in the order of the Change list (apply.rs 51-56).
PatchesOf(changes, f) ==
    LET sel == SelectSeq(changes, LAMBDA c : c.file = f)
    IN  [i \in 1..Len(sel) |-> sel[i].patch]

FilesOf(changes) == {changes[i].file : i \in 1..Len(changes)}

\* p goes before the patches that start where it starts: ties are reversed.
InsertBeforeTies(sorted, p) ==
    LET k == Cardinality({i \in 1..Len(sorted) : sorted[i].start < p.start})
    IN  SubSeq(sorted, 1, k) \o <<p>> \o SubSeq(sorted, k + 1, Len(sorted))

\* p goes after every patch that starts at or before it: ties keep input order.
InsertSorted(sorted, p) ==
    LET k == Cardinality({i \in 1..Len(sorted) : sorted[i].start <= p.start})
    IN  SubSeq(sorted, 1, k) \o <<p>> \o SubSeq(sorted, k + 1, Len(sorted))

\* The patches left in the order of the Change list.
Unsorted(patches) == patches

\* patches.sort_by_key(|patch| patch.location.start): a stable sort.
RECURSIVE SortByStart(_)
SortByStart(patches) ==
    IF patches = <<>> THEN <<>>
    ELSE InsertSorted(SortByStart(SubSeq(patches, 1, Len(patches) - 1)),
                      patches[Len(patches)])

\* An assertion that compares the starts of each pair.
WindowsByStart(sorted) ==
    \A i \in 1..(Len(sorted) - 1) : sorted[i].start <= sorted[i + 1].start

\* The assertion over patches.array_windows().
WindowsOk(sorted) ==
    \A i \in 1..(Len(sorted) - 1) : sorted[i].end <= sorted[i + 1].start

\* FileChangeSet::group: ok is FALSE when the assertion panics; sets maps each
\* file of the Change list to its sorted patches (the Vec<FileChangeSet>, whose
\* order is that of a HashMap and so left open).
Group(changes) ==
    LET sets == [f \in FilesOf(changes) |-> SortByStart(PatchesOf(changes, f))]
    IN  [ok |-> \A f \in DOMAIN sets : WindowsOk(sets[f]), sets |-> sets]

\* Vec::splice(range, bytes) panics on start > end or end > len.
SpliceOk(buf, p) == p.start <= p.end /\ p.end <= Len(buf)

Splice(buf, p) ==
    Slice(buf, 0, p.start) \o p.bytes \o Slice(buf, p.end, Len(buf))

\* The patches applied first to last, lowest offset first.
RECURSIVE WriteForward(_, _)
WriteForward(buf, patches) ==
    IF patches = <<>> THEN [ok |-> TRUE, buf |-> buf]
    ELSE IF ~SpliceOk(buf, Head(patches)) THEN [ok |-> FALSE, buf |-> buf]
    ELSE WriteForward(Splice(buf, Head(patches)), Tail(patches))

\* The loop of FileChangeSet::write over changes.into_iter().rev(): ok is
\* FALSE when a splice panics.
RECURSIVE WriteBuffer(_, _)
WriteBuffer(buf, patches) ==
    IF patches = <<>> THEN [ok |-> TRUE, buf |-> buf]
    ELSE LET p == patches[Len(patches)]
         IN  IF ~SpliceOk(buf, p) THEN [ok |-> FALSE, buf |-> buf]
             ELSE WriteBuffer(Splice(buf, p), SubSeq(patches, 1, Len(patches) - 1))

(***************************************************************************)
(* src/text.rs                                                             *)
(***************************************************************************)
\* The second byte of the two-byte character: a UTF-8 continuation byte.
IsCont(b) == b = "A9"

\* str::is_char_boundary
IsCharBoundary(text, i) ==
    \/ i = 0
    \/ i = Len(text)
    \/ (0 < i /\ i < Len(text) /\ ~IsCont(text[i + 1]))

\* &text[s..e] and String::replace_range(s..e, _) panic unless this holds.
SliceOk(text, s, e) ==
    s <= e /\ e <= Len(text) /\ IsCharBoundary(text, s) /\ IsCharBoundary(text, e)

PARENS == <<<<"(", ")">>, <<"[", "]">>, <<"{", "}">>, <<"<", ">">>>>

NoParen == [some |-> FALSE, other |-> "", opening |-> FALSE]

\* other_paren: (other paren, this paren is opening)
OtherParen(c) ==
    IF \E i \in 1..Len(PARENS) : PARENS[i][1] = c
    THEN [some |-> TRUE, opening |-> TRUE,
          other |-> PARENS[CHOOSE i \in 1..Len(PARENS) : PARENS[i][1] = c][2]]
    ELSE IF \E i \in 1..Len(PARENS) : PARENS[i][2] = c
    THEN [some |-> TRUE, opening |-> FALSE,
          other |-> PARENS[CHOOSE i \in 1..Len(PARENS) : PARENS[i][2] = c][1]]
    ELSE NoParen

NoneIdx == [kind |-> "none", idx |-> 0]

SomeIdx(i) == [kind |-> "some", idx |-> i]

PanicIdx == [kind |-> "panic", idx |-> 0]

\* A forward loop that pops on any closer, whatever its kind.
RECURSIVE ScanForwardAnyKind(_, _, _)
ScanForwardAnyKind(ctx, pos, stack) ==
    IF pos >= Len(ctx) THEN NoneIdx
    ELSE LET c == ctx[pos + 1]
             o == OtherParen(c)
         IN  IF ~o.some THEN ScanForwardAnyKind(ctx, pos + 1, stack)
             ELSE IF o.opening
             THEN ScanForwardAnyKind(ctx, pos + 1, Append(stack, o.other))
             ELSE IF stack = <<>> THEN NoneIdx
             ELSE IF Len(stack) = 1 THEN SomeIdx(pos)
             ELSE ScanForwardAnyKind(ctx, pos + 1, SubSeq(stack, 1, Len(stack) - 1))

\* The forward loop of find_matching_paren, at byte pos of the context.
RECURSIVE ScanForward(_, _, _)
ScanForward(ctx, pos, stack) ==
    IF pos >= Len(ctx) THEN NoneIdx
    ELSE LET c == ctx[pos + 1]
             o == OtherParen(c)
         IN  IF ~o.some THEN ScanForward(ctx, pos + 1, stack)
             ELSE IF o.opening THEN ScanForward(ctx, pos + 1, Append(stack, o.other))
             ELSE IF stack = <<>> THEN NoneIdx
             ELSE IF stack[Len(stack)] # c THEN NoneIdx
             ELSE IF Len(stack) = 1 THEN SomeIdx(pos)
             ELSE ScanForward(ctx, pos + 1, SubSeq(stack, 1, Len(stack) - 1))

\* A backward loop that takes the nearest opener of the wanted kind, nested
\* or not.
RECURSIVE ScanBackwardNearest(_, _, _)
ScanBackwardNearest(ctx, pos, stack) ==
    IF pos < 0 THEN NoneIdx
    ELSE IF ctx[pos + 1] = stack[1] THEN SomeIdx(pos)
    ELSE ScanBackwardNearest(ctx, pos - 1, stack)

\* The backward loop of find_matching_paren, at byte pos of the context.
RECURSIVE ScanBackward(_, _, _)
ScanBackward(ctx, pos, stack) ==
    IF pos < 0 THEN NoneIdx
    ELSE LET c == ctx[pos + 1]
             o == OtherParen(c)
         IN  IF ~o.some THEN ScanBackward(ctx, pos - 1, stack)
             ELSE IF ~o.opening THEN ScanBackward(ctx, pos - 1, Append(stack, o.other))
             ELSE IF stack = <<>> THEN NoneIdx
             ELSE IF stack[Len(stack)] # c THEN NoneIdx
             ELSE IF Len(stack) = 1 THEN SomeIdx(pos)
             ELSE ScanBackward(ctx, pos - 1, SubSeq(stack, 1, Len(stack) - 1))

\* find_matching_paren
FindMatchingParen(ctx, index) ==
    IF ~IsCharBoundary(ctx, index) \/ ~IsCharBoundary(ctx, index + 1) THEN PanicIdx
    ELSE LET o == OtherParen(ctx[index + 1])
         IN  IF ~o.some THEN NoneIdx
             ELSE IF o.opening THEN ScanForward(ctx, index + 1, <<o.other>>)
             ELSE ScanBackward(ctx, index - 1, <<o.other>>)

AlphaChars == {"a", "b", "c", "d", "o", "p", "t", "x", "y"}

IdentChars == AlphaChars \cup {"0", "1", "_"}

\* End of the run [A-Za-z0-9_]* that starts at byte k.
RECURSIVE IdentEnd(_, _)
IdentEnd(s, k) ==
    IF k < Len(s) /\ s[k + 1] \in IdentChars THEN IdentEnd(s, k + 1) ELSE k

\* End of the run [^}]* that starts at byte k.
RECURSIVE BraceRunEnd(_, _)
BraceRunEnd(s, k) ==
    IF k < Len(s) /\ s[k + 1] # "}" THEN BraceRunEnd(s, k + 1) ELSE k

\* re.captures_iter(template): the matches of \$([A-Za-z][A-Za-z0-9_]*)|\$\{([^\}]+)\}
\* from byte i on, left to right, each with the text of its group.
RECURSIVE TemplateMatches(_, _)
TemplateMatches(s, i) ==
    IF i >= Len(s) THEN <<>>
    ELSE IF s[i + 1] = "$" /\ i + 1 < Len(s) /\ s[i + 2] \in AlphaChars
    THEN Let(IdentEnd(s, i + 1), LAMBDA e :
             <<[start |-> i, end |-> e, name |-> Slice(s, i + 1, e)]>>
                 \o TemplateMatches(s, e))
    ELSE IF s[i + 1] = "$" /\ i + 1 < Len(s) /\ s[i + 2] = "{"
            /\ BraceRunEnd(s, i + 2) > i + 2 /\ BraceRunEnd(s, i + 2) < Len(s)
    THEN Let(BraceRunEnd(s, i + 2), LAMBDA e :
             <<[start |-> i, end |-> e + 1, name |-> Slice(s, i + 2, e)]>>
                 \o TemplateMatches(s, e + 1))
    ELSE TemplateMatches(s, i + 1)

\* The replacements applied first to last, each at the offsets it was found at.
RECURSIVE ApplyReplacementsForward(_, _)
ApplyReplacementsForward(result, reps) ==
    IF reps = <<>> THEN result
    ELSE LET r == reps[1]
         IN  ApplyReplacementsForward(
                 Slice(result, 0, Min(r.start, Len(result))) \o r.text
                     \o Slice(result, Min(r.end, Len(result)), Len(result)),
                 SubSeq(reps, 2, Len(reps)))

\* The while loop of template: the replacements applied last to first.
RECURSIVE ApplyReplacements(_, _)
ApplyReplacements(result, reps) ==
    IF reps = <<>> THEN result
    ELSE LET r == reps[Len(reps)]
         IN  ApplyReplacements(
                 Slice(result, 0, r.start) \o r.text \o Slice(result, r.end, Len(result)),
                 SubSeq(reps, 1, Len(reps) - 1))

(***************************************************************************)
(* Tokens of the operation program, and the regex crate on the patterns    *)
(* the model uses: a pattern is a literal text (the empty pattern          *)
(* included) or fails to compile.                                          *)
(***************************************************************************)
\* The bytes of the tokens that the model uses as arguments.
TokenBytes(tok) ==
    CASE tok = "" -> <<>>
      [] tok = "x" -> <<"x">>
      [] tok = "b" -> <<"b">>
      [] tok = "d" -> <<"d">>
      [] tok = "xy" -> <<"x", "y">>
      [] tok = "(" -> <<"(">>
      [] tok = "$top" -> <<"$", "t", "o", "p">>
      [] tok = "$pop" -> <<"$", "p", "o", "p">>
      [] tok = "${pop}$pop" -> <<"$", "{", "p", "o", "p", "}", "$", "p", "o", "p">>
      [] tok = "$y" -> <<"$", "y">>
      [] tok = "$top$pop" -> <<"$", "t", "o", "p", "$", "p", "o", "p">>
      [] tok = "e" -> <<"e">>
      [] tok = "sa" -> <<"s", "a">>
      [] tok = "sub" -> <<"s", "u", "b">>
      [] tok = "push" -> <<"p", "u", "s", "h">>
      [] tok = "first" -> <<"f", "i", "r", "s", "t">>
      [] tok = "whole" -> <<"w", "h", "o", "l", "e">>
      [] tok = "s-dup" -> <<"s", "-", "d", "u", "p">>
      [] tok = "s-drop" -> <<"s", "-", "d", "r", "o", "p">>
      [] tok = "delete" -> <<"d", "e", "l", "e", "t", "e">>
      [] tok = "parens" -> <<"p", "a", "r", "e", "n", "s">>
      [] tok = "replace" -> <<"r", "e", "p", "l", "a", "c", "e">>
      [] tok = "original" -> <<"o", "r", "i", "g", "i", "n", "a", "l">>
      [] OTHER -> <<"?">>

\* Regex::new fails on an unclosed group.
RegexValid(tok) == tok # "("

\* The literal pattern at byte i of text; an empty match only on a boundary.
MatchesAt(text, pat, i) ==
    /\ i + Len(pat) <= Len(text)
    /\ Slice(text, i, i + Len(pat)) = pat
    /\ (pat = <<>> => IsCharBoundary(text, i))

\* Regex::find_at(text, start): the leftmost match that starts at or after
\* start, as its start offset; -1 when there is none.
FindAt(text, pat, start) ==
    LET hits == {i \in start..Len(text) : MatchesAt(text, pat, i)}
    IN  IF hits = {} THEN -1 ELSE CHOOSE i \in hits : \A j \in hits : i <= j

\* Where the search for the next match of find_iter resumes after a match at m:
\* after the match, and after an empty match one character further.
RECURSIVE NextBoundary(_, _)
NextBoundary(text, i) ==
    IF i >= Len(text) \/ IsCharBoundary(text, i) THEN i ELSE NextBoundary(text, i + 1)

ResumeAt(text, pat, m) ==
    IF pat = <<>> THEN NextBoundary(text, m + 1) ELSE m + Len(pat)

\* Regex::find_iter(text).last(), as the start offset of the match; -1 for none.
RECURSIVE LastMatch(_, _, _, _)
LastMatch(text, pat, from, last) ==
    IF from > Len(text) THEN last
    ELSE Let(FindAt(text, pat, from), LAMBDA m :
             IF m < 0 THEN last
             ELSE Let(ResumeAt(text, pat, m), LAMBDA next :
                      LastMatch(text, pat, next, m)))

\* Captures::expand on a replacement, for a pattern without groups: $0 and ${0}
\* are the match, any other $name and ${name} are empty, $$ is a dollar.
RECURSIVE Expand(_, _, _)
Expand(rep, i, matched) ==
    IF i >= Len(rep) THEN <<>>
    ELSE IF rep[i + 1] # "$" THEN <<rep[i + 1]>> \o Expand(rep, i + 1, matched)
    ELSE IF i + 1 < Len(rep) /\ rep[i + 2] = "$" THEN <<"$">> \o Expand(rep, i + 2, matched)
    ELSE IF i + 1 < Len(rep) /\ rep[i + 2] = "{" /\ BraceRunEnd(rep, i + 2) < Len(rep)
    THEN Let(BraceRunEnd(rep, i + 2), LAMBDA e :
             (IF Slice(rep, i + 2, e) = <<"0">> THEN matched ELSE <<>>)
                 \o Expand(rep, e + 1, matched))
    ELSE IF IdentEnd(rep, i + 1) > i + 1
    THEN Let(IdentEnd(rep, i + 1), LAMBDA e :
             (IF Slice(rep, i + 1, e) = <<"0">> THEN matched ELSE <<>>)
                 \o Expand(rep, e, matched))
    ELSE <<"$">> \o Expand(rep, i + 1, matched)

\* Regex::replacen(text, limit, rep) from byte `from` on: limit 1 is replace,
\* limit 0 is replace_all.
RECURSIVE ReplaceN(_, _, _, _, _)
ReplaceN(text, pat, rep, from, limit) ==
    Let(IF from > Len(text) THEN -1 ELSE FindAt(text, pat, from), LAMBDA m :
        IF m < 0 THEN Slice(text, Min(from, Len(text)), Len(text))
        ELSE Let(ResumeAt(text, pat, m), LAMBDA next :
                 LET head == Slice(text, from, m) \o Expand(rep, 0, pat)
                 IN  IF limit = 1 THEN head \o Slice(text, m + Len(pat), Len(text))
                     ELSE IF pat = <<>>
                     THEN head \o Slice(text, m, Min(next, Len(text)))
                              \o ReplaceN(text, pat, rep, next, limit)
                     ELSE head \o ReplaceN(text, pat, rep, next, limit)))

(***************************************************************************)
(* src/operation.rs: TextOperation                                         *)
(***************************************************************************)
\* TextOperation::from_str (the strum serializations); "" for no such operation.
FromStr(tok) ==
    CASE tok \in {"stack-drop", "s-drop"} -> "StackDrop"
      [] tok \in {"stack-dup", "s-dup"} -> "StackDup"
      [] tok \in {"stack-push", "s-push", "push"} -> "StackPush"
      [] tok = "whole" -> "Whole"
      [] tok = "original" -> "Original"
      [] tok \in {"matching-paren", "mp"} -> "MatchingParen"
      [] tok = "parens" -> "Parens"
      [] tok \in {"extend", "e"} -> "Extend"
      [] tok \in {"first", "f"} -> "First"
      [] tok \in {"previous", "prev", "p"} -> "Previous"
      [] tok \in {"next", "n"} -> "Next"
      [] tok = "zero" -> "Zero"
      [] tok \in {"narrow", "inner"} -> "Narrow"
      [] tok \in {"delete", "d"} -> "Delete"
      [] tok = "replace" -> "Replace"
      [] tok \in {"substitute", "sub", "s"} -> "Substitute"
      [] tok \in {"substitute-all", "sub-all", "suba", "sa"} -> "SubstituteAll"
      [] OTHER -> ""

\* The argc property.
Argc(op) ==
    CASE op \in {"Extend", "First", "Previous", "Next", "Narrow", "Replace"} -> 1
      [] op \in {"Substitute", "SubstituteAll"} -> 2
      [] OTHER -> 0

MkSpan(s, e) == [start |-> s, end |-> e]

\* ExecError::stop_all
\* A stop_all without its negation: true for NoMatches alone.
StopAllOnNoMatches(kind) == kind = "NoMatches"

\* A stop_all that lets a stack underflow pass like NoMatches.
StopAllButUnderflow(kind) == kind \notin {"NoMatches", "StackUnderflow"}

StopAll(kind) == kind # "NoMatches"

\* The result of one operation: kind is "ok", an ExecError or "panic".
Ok(st, span) == [kind |-> "ok", hay |-> st.hay, span |-> span, stack |-> st.stack]

Fail(st, kind) == [kind |-> kind, hay |-> st.hay, span |-> st.span, stack |-> st.stack]

\* A resolver whose pop yields the top and leaves it on the stack.
RECURSIVE ResolvePopKeeps(_, _, _)
ResolvePopKeeps(matches, stack, reps) ==
    IF matches = <<>> THEN [ok |-> TRUE, stack |-> stack, reps |-> reps]
    ELSE LET m == Head(matches)
         IN  IF m.name \in {<<"t", "o", "p">>, <<"p", "o", "p">>} /\ stack = <<>>
             THEN [ok |-> FALSE, stack |-> stack, reps |-> reps]
             ELSE IF m.name \in {<<"t", "o", "p">>, <<"p", "o", "p">>}
             THEN ResolvePopKeeps(Tail(matches), stack,
                                  Append(reps, [start |-> m.start, end |-> m.end,
                                                text |-> stack[Len(stack)]]))
             ELSE ResolvePopKeeps(Tail(matches), stack, reps)

\* template_resolver over the matches of a template, left to right.
RECURSIVE Resolve(_, _, _)
Resolve(matches, stack, reps) ==
    IF matches = <<>> THEN [ok |-> TRUE, stack |-> stack, reps |-> reps]
    ELSE LET m == Head(matches)
         IN  IF m.name \in {<<"t", "o", "p">>, <<"p", "o", "p">>} /\ stack = <<>>
             THEN [ok |-> FALSE, stack |-> stack, reps |-> reps]
             ELSE IF m.name = <<"t", "o", "p">>
             THEN Resolve(Tail(matches), stack,
                          Append(reps, [start |-> m.start, end |-> m.end,
                                        text |-> stack[Len(stack)]]))
             ELSE IF m.name = <<"p", "o", "p">>
             THEN Resolve(Tail(matches), SubSeq(stack, 1, Len(stack) - 1),
                          Append(reps, [start |-> m.start, end |-> m.end,
                                        text |-> stack[Len(stack)]]))
             ELSE Resolve(Tail(matches), stack, reps)

\* template(value, template_resolver): Err when the resolver fails, else the
\* text and the stack that the resolver leaves.
Template(value, stack) ==
    Let(Resolve(TemplateMatches(value, 0), stack, <<>>), LAMBDA r :
        [ok |-> r.ok, stack |-> r.stack,
         text |-> ApplyReplacements(value, r.reps)])

\* string_arg!: template(args[i], template_resolver)
StringArg(tok, stack) == Template(TokenBytes(tok), stack)

\* A replace_range that drops what follows the range.
ReplaceRangeToEnd(hay, span, text) == Slice(hay, 0, span.start) \o text

\* String::replace_range(span, text)
ReplaceRange(hay, span, text) ==
    Slice(hay, 0, span.start) \o text \o Slice(hay, span.end, Len(hay))

\* The Parens arm: the loop that walks span.start backward.
RECURSIVE ParensLoop(_, _)
ParensLoop(st, start) ==
    Let(FindMatchingParen(st.hay, start), LAMBDA mp :
        IF mp.kind = "panic" THEN Fail(st, "panic")
        ELSE IF mp.kind = "some"
        THEN Ok(st, IF mp.idx < start THEN MkSpan(mp.idx, start + 1)
                    ELSE MkSpan(start, mp.idx + 1))
        ELSE IF start = 0 THEN Fail(st, "NoMatches")
        ELSE Let(CHOOSE k \in 0..(start - 1) :
                     /\ IsCharBoundary(st.hay, k)
                     /\ \A j \in (k + 1)..(start - 1) : ~IsCharBoundary(st.hay, j),
                 LAMBDA prev : ParensLoop(st, prev)))

\* A substitute that returns the selection it was given.
SubstituteKeepsSpan(st, a, limit) ==
    IF ~RegexValid(a[1]) THEN Fail(st, "InvalidRegex")
    ELSE IF ~SliceOk(st.hay, st.span.start, st.span.end) THEN Fail(st, "panic")
    ELSE Let(StringArg(a[2], st.stack), LAMBDA v :
             IF ~v.ok THEN Fail(st, "StackUnderflow")
             ELSE Let(ReplaceN(Slice(st.hay, st.span.start, st.span.end),
                               TokenBytes(a[1]), v.text, 0, limit),
                      LAMBDA replaced :
                          [kind |-> "ok", stack |-> v.stack,
                           hay |-> ReplaceRange(st.hay, st.span, replaced),
                           span |-> st.span]))

\* The arms of Substitute and SubstituteAll (limit 1 and 0).
ApplySubstitute(st, a, limit) ==
    IF ~RegexValid(a[1]) THEN Fail(st, "InvalidRegex")
    ELSE IF ~SliceOk(st.hay, st.span.start, st.span.end) THEN Fail(st, "panic")
    ELSE Let(StringArg(a[2], st.stack), LAMBDA v :
             IF ~v.ok THEN Fail(st, "StackUnderflow")
             ELSE Let(ReplaceN(Slice(st.hay, st.span.start, st.span.end),
                               TokenBytes(a[1]), v.text, 0, limit),
                      LAMBDA replaced :
                          [kind |-> "ok", stack |-> v.stack,
                           hay |-> ReplaceRange(st.hay, st.span, replaced),
                           span |-> MkSpan(st.span.start,
                                           st.span.start + Len(replaced))]))

\* The arms that search with a regex: Extend, First, Previous, Next, Narrow.
ApplySearch(op, st, a) ==
    LET pat == TokenBytes(a[1])
        hay == st.hay
        span == st.span
        found(m) == Ok(st, MkSpan(m, m + Len(pat)))
    IN  IF ~RegexValid(a[1]) THEN Fail(st, "InvalidRegex")
        ELSE CASE op = "Extend" ->
                 IF span.end > Len(hay) THEN Fail(st, "panic")
                 ELSE LET m == FindAt(hay, pat, span.end)
                      IN  IF m < 0 THEN Fail(st, "NoMatches")
                          ELSE IF m = span.end
                          THEN Ok(st, MkSpan(span.start, m + Len(pat)))
                          ELSE Ok(st, span)
          [] op = "First" ->
                 LET m == FindAt(hay, pat, 0)
                 IN  IF m < 0 THEN Fail(st, "NoMatches") ELSE found(m)
          [] op = "Previous" ->
                 IF ~SliceOk(hay, 0, span.start) THEN Fail(st, "panic")
                 ELSE LET m == LastMatch(Slice(hay, 0, span.start), pat, 0, -1)
                      IN  IF m < 0 THEN Fail(st, "NoMatches") ELSE found(m)
          [] op = "Next" ->
                 IF span.end > Len(hay) THEN Fail(st, "panic")
                 ELSE LET m == FindAt(hay, pat, span.end)
                      IN  IF m < 0 THEN Fail(st, "NoMatches") ELSE found(m)
          [] op = "Narrow" ->
                 IF ~SliceOk(hay, 0, span.end) \/ span.start > span.end
                 THEN Fail(st, "panic")
                 ELSE LET m == FindAt(Slice(hay, 0, span.end), pat, span.start)
                      IN  IF m < 0 THEN Fail(st, "NoMatches") ELSE found(m)

\* The StackDrop arm: stack.pop(), the selection as it was.
ApplyStackDrop(st) ==
    IF st.stack = <<>> THEN Fail(st, "StackUnderflow")
    ELSE [Ok(st, st.span) EXCEPT !.stack = SubSeq(st.stack, 1, Len(st.stack) - 1)]

\* A stack-dup that pops the top and pushes it back once.
StackDupOnce(st) ==
    IF st.stack = <<>> THEN Fail(st, "StackUnderflow") ELSE Ok(st, st.span)

\* The StackDup arm: the popped top is pushed twice.
ApplyStackDup(st) ==
    IF st.stack = <<>> THEN Fail(st, "StackUnderflow")
    ELSE [Ok(st, st.span) EXCEPT !.stack = Append(st.stack, st.stack[Len(st.stack)])]

\* TextOperation::apply on st = [hay, span, orig, stack] with arguments a.
Apply(op, st, a) ==
    LET hay == st.hay
        span == st.span
        stack == st.stack
    IN  CASE op = "StackDrop" -> ApplyStackDrop(st)
          [] op = "StackDup" -> ApplyStackDup(st)
          [] op = "StackPush" ->
                 IF ~SliceOk(hay, span.start, span.end) THEN Fail(st, "panic")
                 ELSE [Ok(st, span) EXCEPT
                          !.stack = Append(stack, Slice(hay, span.start, span.end))]
          [] op = "Whole" -> Ok(st, MkSpan(0, Len(hay)))
          [] op = "Original" -> Ok(st, st.orig)
          [] op = "MatchingParen" ->
                 IF span.end - span.start # 1 THEN Fail(st, "NoMatches")
                 ELSE Let(FindMatchingParen(hay, span.start), LAMBDA mp :
                          IF mp.kind = "panic" THEN Fail(st, "panic")
                          ELSE IF mp.kind = "none" THEN Fail(st, "NoMatches")
                          ELSE Ok(st, MkSpan(mp.idx, mp.idx + 1)))
          [] op = "Parens" -> ParensLoop(st, span.start)
          [] op \in {"Extend", "First", "Previous", "Next", "Narrow"} ->
                 ApplySearch(op, st, a)
          [] op = "Zero" -> Ok(st, MkSpan(span.start, span.start))
          [] op = "Delete" ->
                 IF ~SliceOk(hay, span.start, span.end) THEN Fail(st, "panic")
                 ELSE [Ok(st, MkSpan(span.start, span.start)) EXCEPT
                          !.hay = ReplaceRange(hay, span, <<>>)]
          [] op = "Replace" ->
                 Let(StringArg(a[1], stack), LAMBDA v :
                     IF ~v.ok THEN Fail(st, "StackUnderflow")
                     ELSE IF ~SliceOk(hay, span.start, span.end) THEN Fail(st, "panic")
                     ELSE [kind |-> "ok", stack |-> v.stack,
                           hay |-> ReplaceRange(hay, span, v.text),
                           span |-> MkSpan(span.start, span.start + Len(v.text))])
          [] op = "Substitute" -> ApplySubstitute(st, a, 1)
          [] op = "SubstituteAll" -> ApplySubstitute(st, a, 0)

(***************************************************************************)
(* src/operation.rs: Operation::run                                        *)
(***************************************************************************)
\* The state of a run at its start: status is "running", then "ok" (Ok(())),
\* the kind of the ExecError returned, or "panic".
StartRun(prog, hay, span) ==
    [status |-> "running", hay |-> hay, span |-> span, orig |-> span,
     stack |-> <<>>, ops |-> prog, have |-> 0]

\* The tokens at the head of rest, n at most, that spell no mnemonic.
RECURSIVE PlainPrefix(_, _)
PlainPrefix(rest, n) ==
    IF n = 0 \/ rest = <<>> \/ FromStr(Head(rest)) # "" THEN <<>>
    ELSE <<Head(rest)>> \o PlainPrefix(Tail(rest), n - 1)

\* The first defect that parsing the whole queue ahead of its execution would
\* find: a token in the place of a mnemonic that spells none, or a mnemonic
\* with too few tokens after it; "" when there is none.
RECURSIVE ProgramDefect(_)
ProgramDefect(ops) ==
    IF ops = <<>> THEN ""
    ELSE IF FromStr(Head(ops)) = "" THEN "UnknownOp"
    ELSE IF Len(Tail(ops)) < Argc(FromStr(Head(ops))) THEN "NotEnoughArguments"
    ELSE ProgramDefect(SubSeq(Tail(ops), Argc(FromStr(Head(ops))) + 1, Len(Tail(ops))))

\* An iteration that parses the whole queue before it executes its head.
RunIterationParsesAhead(r) ==
    IF r.ops = <<>> THEN [r EXCEPT !.status = "ok"]
    ELSE IF ProgramDefect(r.ops) # "" THEN [r EXCEPT !.status = ProgramDefect(r.ops)]
    ELSE LET op == FromStr(Head(r.ops))
             rest == Tail(r.ops)
             n == Argc(op)
         IN  Let(Apply(op, r, SubSeq(rest, 1, n)), LAMBDA res :
                 [r EXCEPT !.status = IF res.kind = "ok" THEN "running" ELSE res.kind,
                           !.hay = res.hay, !.span = res.span, !.stack = res.stack,
                           !.ops = SubSeq(rest, n + 1, Len(rest))])

\* An iteration that takes a token as an argument only when it spells no
\* mnemonic.
RunIterationStopsAtMnemonic(r) ==
    IF r.ops = <<>> THEN [r EXCEPT !.status = "ok"]
    ELSE LET op == FromStr(Head(r.ops))
             rest == Tail(r.ops)
             n == Argc(op)
         IN  IF op = "" THEN [r EXCEPT !.status = "UnknownOp"]
             ELSE IF Len(PlainPrefix(rest, n)) < n
             THEN [r EXCEPT !.status = "NotEnoughArguments",
                            !.have = Len(PlainPrefix(rest, n)), !.ops = <<>>]
             ELSE Let(Apply(op, r, SubSeq(rest, 1, n)), LAMBDA res :
                      [r EXCEPT !.status = IF res.kind = "ok" THEN "running" ELSE res.kind,
                                !.hay = res.hay, !.span = res.span, !.stack = res.stack,
                                !.ops = SubSeq(rest, n + 1, Len(rest))])

\* One iteration of the while loop of Operation::run (Ok(()) when the queue is
\* empty).
RunIteration(r) ==
    IF r.ops = <<>> THEN [r EXCEPT !.status = "ok"]
    ELSE LET op == FromStr(Head(r.ops))
             rest == Tail(r.ops)
             n == Argc(op)
         IN  IF op = "" THEN [r EXCEPT !.status = "UnknownOp"]
             ELSE IF Len(rest) < n
             THEN [r EXCEPT !.status = "NotEnoughArguments", !.have = Len(rest),
                            !.ops = <<>>]
             ELSE Let(Apply(op, r, SubSeq(rest, 1, n)), LAMBDA res :
                      [r EXCEPT !.status = IF res.kind = "ok" THEN "running" ELSE res.kind,
                                !.hay = res.hay, !.span = res.span, !.stack = res.stack,
                                !.ops = SubSeq(rest, n + 1, Len(rest))])

\* Operation::run to its end.
RECURSIVE Run(_)
Run(r) ==
    IF r.status # "running" THEN r ELSE Let(RunIteration(r), LAMBDA next : Run(next))

(***************************************************************************)
(* Stepwise Interpreter runs: the program, the buffer and the selection    *)
(* are drawn at the start, and each step is one iteration of the loop.     *)
(***************************************************************************)
RunTokens == {"delete", "original", "whole", "push", "s-drop", "s-dup", "parens",
              "mp", "first", "e", "replace", "sub", "sa", "x", "xy", "$pop", "("}

RunTexts == {<<"(", "x", ")">>, <<"C3", "A9", "x">>}

RECURSIVE SeqsUpTo(_, _)
SeqsUpTo(S, n) ==
    IF n = 0 THEN {<<>>}
    ELSE LET shorter == SeqsUpTo(S, n - 1)
         IN  shorter \cup {Append(q, x) : q \in shorter, x \in S}

\* The selections a fragment can hand to a run: within the text, on boundaries.
ValidSpans(text) ==
    {MkSpan(s, e) : s \in 0..Len(text), e \in 0..Len(text)}
        \cap {sp \in [start : 0..Len(text), end : 0..Len(text)] :
                 SliceOk(text, sp.start, sp.end)}

Idle == [status |-> "idle", hay |-> <<>>, span |-> MkSpan(0, 0), orig |-> MkSpan(0, 0),
         stack |-> <<>>, ops |-> <<>>, have |-> 0]

\* No call of text::template is modelled on its own.
NoCall == [status |-> "none"]

NoArgs == [write |-> FALSE, single |-> FALSE,
           selector |-> [kind |-> "All", num |-> 0, name |-> ""],
           suggestion |-> FALSE, ops |-> <<>>]

\* Everything main owns, at rest.
MainAtRest ==
    /\ files = InitFiles
    /\ diags = <<>>
    /\ idx = 1
    /\ changeset = <<>>
    /\ list_summary = {}
    /\ fcs = <<>>
    /\ pending = {}
    /\ report = <<>>
    /\ origin = <<>>
    /\ processed = <<>>
    /\ aborted = 0

InitRun ==
    /\ MainAtRest
    /\ args = NoArgs
    /\ overflow_checks = TRUE
    /\ pc = "interp"
    /\ \E prog \in SeqsUpTo(RunTokens, MaxTokens), hay \in RunTexts :
           \E span \in ValidSpans(hay) : interp = StartRun(prog, hay, span)
    /\ pre = Idle
    /\ call = NoCall

RunStep ==
    /\ pc = "interp"
    /\ interp.status = "running"
    /\ interp' = RunIteration(interp)
    /\ pre' = interp
    /\ UNCHANGED <<files, args, overflow_checks, diags, idx, changeset,
                   list_summary, fcs, pending, report, pc, origin, processed,
                   aborted, call>>

NextRun == RunStep

SpecRun == InitRun /\ [][NextRun]_vars

\* C10: during a run, after every operation, the selection satisfies
\* start <= end <= length of the current buffer and both ends lie on character
\* boundaries of the current buffer.
SelectionAlwaysValid ==
    (pc = "interp" /\ interp.status \in {"running", "ok"})
        => SliceOk(interp.hay, interp.span.start, interp.span.end)

\* The operation that the latest iteration of the run applied, "" when there
\* is none: the mnemonic was known and its arguments were there.
LastOp ==
    IF pc = "interp" /\ pre.status = "running" /\ pre.ops # <<>>
           /\ Len(pre.ops) > Argc(FromStr(Head(pre.ops)))
    THEN FromStr(Head(pre.ops))
    ELSE ""

\* The arguments of that operation.
LastArgs == SubSeq(pre.ops, 2, 1 + Argc(LastOp))

\* C11: stack-drop and stack-dup on an empty stack fail with StackUnderflow
\* and do not panic; on a non-empty stack stack-drop removes the top element
\* and nothing else, and stack-dup leaves the stack one element longer, its two
\* topmost elements equal to the former top and the rest as it was.
StackDropDupExact ==
    LastOp \in {"StackDrop", "StackDup"} =>
        IF pre.stack = <<>> THEN interp.status = "StackUnderflow"
        ELSE /\ interp.status = "running"
             /\ LastOp = "StackDrop" =>
                    interp.stack = SubSeq(pre.stack, 1, Len(pre.stack) - 1)
             /\ LastOp = "StackDup" =>
                    /\ Len(interp.stack) = Len(pre.stack) + 1
                    /\ interp.stack[Len(interp.stack)] = pre.stack[Len(pre.stack)]
                    /\ interp.stack[Len(interp.stack) - 1] = pre.stack[Len(pre.stack)]
                    /\ SubSeq(interp.stack, 1, Len(pre.stack)) = pre.stack

\* A stack-dup on a stack that holds a non-empty text.
StackDropDupWitness ==
    /\ LastOp = "StackDup"
    /\ pre.stack # <<>>
    /\ pre.stack[Len(pre.stack)] # <<>>
    /\ interp.status = "running"

\* The bytes of the buffer that were not in it before the latest operation,
\* when that operation wrote in place of the old selection: what lies between
\* the old selection start and the bytes that followed the old selection.
NewlyWritten ==
    Slice(interp.hay, pre.span.start,
          Len(interp.hay) - (Len(pre.hay) - pre.span.end))

\* C12: the selection that replace, substitute and substitute-all return
\* starts at the old selection start, and its length is the byte length of the
\* text written in place of the old selection.
WritersSelectWhatTheyWrote ==
    (LastOp \in {"Replace", "Substitute", "SubstituteAll"}
        /\ interp.status = "running") =>
        /\ Len(interp.hay) >= Len(pre.hay) - (pre.span.end - pre.span.start)
        /\ interp.hay = Slice(pre.hay, 0, pre.span.start) \o NewlyWritten
                            \o Slice(pre.hay, pre.span.end, Len(pre.hay))
        /\ interp.span.start = pre.span.start
        /\ interp.span.end - interp.span.start = Len(NewlyWritten)

\* A substitute-all that writes a text of another length than the selection.
WritersSelectWitness ==
    /\ LastOp = "SubstituteAll"
    /\ interp.status = "running"
    /\ Len(NewlyWritten) # pre.span.end - pre.span.start

\* C20: extend, given a regex that compiles and a selection within the
\* buffer, raises no error, leaves the selection start where it was and does
\* not shrink the selection: when a match starts exactly at the selection end
\* the end becomes the end of that match, and in every other case (a later
\* match, or no match at all) the selection is returned as it was.
ExtendNeverFails ==
    (LastOp = "Extend" /\ RegexValid(LastArgs[1])
        /\ SliceOk(pre.hay, pre.span.start, pre.span.end)) =>
        /\ interp.status = "running"
        /\ interp.hay = pre.hay
        /\ interp.span.start = pre.span.start
        /\ interp.span.end >= pre.span.end
        /\ interp.span.end =
               IF MatchesAt(pre.hay, TokenBytes(LastArgs[1]), pre.span.end)
               THEN pre.span.end + Len(TokenBytes(LastArgs[1]))
               ELSE pre.span.end

\* The latest iteration met a mnemonic at the head of the queue.
MnemonicMet ==
    /\ pc = "interp"
    /\ pre.status = "running"
    /\ pre.ops # <<>>
    /\ FromStr(Head(pre.ops)) # ""

\* C16: the run takes the tokens from left to right: after a mnemonic of
\* arity n the next n tokens are its arguments as they are written, whether or
\* not they spell a mnemonic, and the tokens after them are what is left; with
\* fewer than n tokens left after the mnemonic the run fails with
\* NotEnoughArguments(op, k), k being the number of tokens that were left.
RunTakesArgumentsVerbatim ==
    MnemonicMet =>
        LET op == FromStr(Head(pre.ops))
            rest == Tail(pre.ops)
            n == Argc(op)
        IN  IF Len(rest) < n
            THEN interp.status = "NotEnoughArguments" /\ interp.have = Len(rest)
            ELSE /\ interp.status \notin {"NotEnoughArguments", "UnknownOp"}
                 /\ interp.ops = SubSeq(rest, n + 1, Len(rest))
                 /\ LET res == Apply(op, pre, SubSeq(rest, 1, n))
                    IN  /\ interp.status = (IF res.kind = "ok" THEN "running" ELSE res.kind)
                        /\ interp.hay = res.hay
                        /\ interp.span = res.span
                        /\ interp.stack = res.stack

\* replace has written the bytes of a token that spells a mnemonic.
RunTakesArgumentsWitness ==
    /\ LastOp = "Replace"
    /\ FromStr(pre.ops[2]) = "Delete"
    /\ interp.status = "running"
    /\ NewlyWritten = <<"d", "e", "l", "e", "t", "e">>
    /\ Len(interp.ops) = Len(pre.ops) - 2

\* substitute with one token left after it.
NotEnoughArgumentsWitness ==
    /\ MnemonicMet
    /\ FromStr(Head(pre.ops)) = "Substitute"
    /\ Len(pre.ops) = 2
    /\ interp.status = "NotEnoughArguments"
    /\ interp.have = 1

(***************************************************************************)
(* find_matching_paren through the operations that call it, matching-paren *)
(* and parens, on buffers drawn from brackets, a one-byte letter and a      *)
(* two-byte character.                                                      *)
(***************************************************************************)
\* Longest buffer handed to the bracket operations.
MaxParenLen == 4

ParenBytes == {"(", ")", "[", "]", "{", "}", "<", ">", "x", "C3", "A9"}

\* A &str is valid UTF-8: the two bytes of the two-byte character come together.
IsUtf8(text) ==
    \A k \in 1..Len(text) :
        /\ text[k] = "C3" => (k < Len(text) /\ text[k + 1] = "A9")
        /\ text[k] = "A9" => (k > 1 /\ text[k - 1] = "C3")

ParenTexts == {t \in SeqsUpTo(ParenBytes, MaxParenLen) : IsUtf8(t)}

ParenProgs == {<<"mp", "mp">>, <<"parens">>}

InitParen ==
    /\ MainAtRest
    /\ args = NoArgs
    /\ overflow_checks = TRUE
    /\ pc = "interp"
    /\ \E prog \in ParenProgs, hay \in ParenTexts :
           \E span \in ValidSpans(hay) : interp = StartRun(prog, hay, span)
    /\ pre = Idle
    /\ call = NoCall

NextParen == RunStep

SpecParen == InitParen /\ [][NextParen]_vars

\* matching-paren has just called find_matching_paren on the bracket selected
\* at the start of the run / on the bracket that the first call returned.
FirstMatchDone ==
    /\ LastOp = "MatchingParen"
    /\ pre.ops = <<"mp", "mp">>
    /\ pre.span.end - pre.span.start = 1

SecondMatchDone ==
    /\ LastOp = "MatchingParen"
    /\ pre.ops = <<"mp">>
    /\ pre.span.end - pre.span.start = 1

\* C13: bracket matching is an involution: when find_matching_paren(text, i)
\* returns j, find_matching_paren(text, j) returns i.
MatchIsInvolution ==
    SecondMatchDone =>
        /\ interp.status = "running"
        /\ interp.span = pre.orig

\* The second call has returned, from a closer back over a nested pair.
MatchIsInvolutionWitness ==
    /\ SecondMatchDone
    /\ interp.status = "running"
    /\ pre.span.start > pre.orig.start + 2
    /\ \E k \in (pre.orig.start + 1)..(pre.span.start - 1) :
           pre.hay[k + 1] = pre.hay[pre.orig.start + 1]

\* The brackets of a text, in order.
Brackets(text) == SelectSeq(text, LAMBDA c : OtherParen(c).some)

\* A sequence of brackets is well nested and type-correct when deleting
\* adjacent pairs of one kind, again and again, leaves nothing.
RECURSIVE Reduces(_)
Reduces(bs) ==
    IF bs = <<>> THEN TRUE
    ELSE IF \E k \in 1..(Len(bs) - 1) : <<bs[k], bs[k + 1]>> \in Range(PARENS)
    THEN LET k == CHOOSE k \in 1..(Len(bs) - 1) : <<bs[k], bs[k + 1]>> \in Range(PARENS)
         IN  Reduces(SubSeq(bs, 1, k - 1) \o SubSeq(bs, k + 2, Len(bs)))
    ELSE FALSE

WellNested(text) == Reduces(Brackets(text))

\* Openers minus closers, of any kind, among the bytes a..b of text (0-based,
\* inclusive).
Depth(text, a, b) ==
    Cardinality({k \in a..b : OtherParen(text[k + 1]).some /\ OtherParen(text[k + 1]).opening})
        - Cardinality({k \in a..b : OtherParen(text[k + 1]).some /\ ~OtherParen(text[k + 1]).opening})

\* The bracket that closes (opens) the bracket at i by count alone, whatever
\* the kinds; -1 when there is none.
Counterpart(text, i) ==
    LET cands == IF OtherParen(text[i + 1]).opening
                 THEN {j \in (i + 1)..(Len(text) - 1) : Depth(text, i, j) = 0}
                 ELSE {j \in 0..(i - 1) : Depth(text, j, i) = 0}
    IN  IF cands = {} THEN -1
        ELSE IF OtherParen(text[i + 1]).opening
        THEN CHOOSE j \in cands : \A k \in cands : j <= k
        ELSE CHOOSE j \in cands : \A k \in cands : j >= k

\* C14: when find_matching_paren returns j for i, the characters at the two
\* indices are the opener and the closer of one of the four pairs and the text
\* strictly between them is well nested and type-correct; when the bracket
\* that closes (opens) the bracket at i by count is of another kind, as in
\* "(]", there is no match.
MatchIsTypedAndNested ==
    FirstMatchDone =>
        LET i == pre.span.start
            j == interp.span.start
            lo == Min(i, j)
            hi == IF i < j THEN j ELSE i
            c == IF OtherParen(pre.hay[i + 1]).some THEN Counterpart(pre.hay, i) ELSE -1
        IN  /\ interp.status \in {"running", "NoMatches"}
            /\ interp.status = "running" =>
                   /\ i # j
                   /\ <<pre.hay[lo + 1], pre.hay[hi + 1]>> \in Range(PARENS)
                   /\ WellNested(Slice(pre.hay, lo + 1, hi))
            /\ (c >= 0 /\ <<pre.hay[Min(i, c) + 1], pre.hay[(IF i < c THEN c ELSE i) + 1]>>
                              \notin Range(PARENS))
                   => interp.status = "NoMatches"

\* A match over a nested pair of another kind, and a refused mismatch.
MatchIsTypedWitness ==
    /\ FirstMatchDone
    /\ interp.status = "running"
    /\ interp.span.start > pre.span.start + 2
    /\ Brackets(Slice(pre.hay, pre.span.start + 1, interp.span.start)) # <<>>

MismatchRefusedWitness ==
    /\ FirstMatchDone
    /\ interp.status = "NoMatches"
    /\ pre.hay = <<"(", "]">>
    /\ pre.span.start = 0

\* C19: on any buffer and any valid selection, parens either returns the
\* inclusive range from a bracket to its match (found at the selection start
\* or by walking the start backward over character boundaries) or fails with
\* NoMatches.
ParensSelectsOrNoMatches ==
    LastOp = "Parens" =>
        \/ interp.status = "NoMatches"
        \/ /\ interp.status = "running"
           /\ interp.span.end >= interp.span.start + 2
           /\ interp.span.start <= pre.span.start
           /\ <<pre.hay[interp.span.start + 1], pre.hay[interp.span.end]>>
                  \in Range(PARENS)
           /\ WellNested(Slice(pre.hay, interp.span.start + 1, interp.span.end - 1))

(***************************************************************************)
(* text::template with the resolver of TextOperation::apply, on a template *)
(* and a stack drawn at the start.                                         *)
(***************************************************************************)
\* Most pieces that a drawn template is made of.
MaxChunks == 3

\* The pieces: placeholders with and without a value, and bytes that make
\* other names and other placeholders when the pieces are joined.
TemplateChunks == {<<"$", "t", "o", "p">>, <<"$", "p", "o", "p">>,
                   <<"$", "{", "t", "o", "p", "}">>, <<"$", "{", "p", "o", "p", "}">>,
                   <<"$", "x">>, <<"$">>, <<"$", "{">>, <<"}">>, <<"x">>}

TemplatePool == {Concat(cs) : cs \in SeqsUpTo(TemplateChunks, MaxChunks)}

\* What the stack may hold: an empty text, a text that is itself a
\* placeholder, and a text longer than any placeholder.
StackValues == {<<>>, <<"$", "p", "o", "p">>, <<"y", "y", "y", "y", "y", "y", "y">>}

InitTemplate ==
    /\ MainAtRest
    /\ args = NoArgs
    /\ overflow_checks = TRUE
    /\ pc = "template"
    /\ interp = Idle
    /\ pre = Idle
    /\ \E value \in TemplatePool, stack \in SeqsUpTo(StackValues, 2) :
           call = [status |-> "called", template |-> value, stack |-> stack,
                   ret |-> [ok |-> FALSE, stack |-> <<>>, text |-> <<>>]]

\* template(value, template_resolver) returns.
TemplateStep ==
    /\ pc = "template"
    /\ call.status = "called"
    /\ call' = [call EXCEPT !.status = "returned",
                            !.ret = Template(call.template, call.stack)]
    /\ UNCHANGED <<files, args, overflow_checks, diags, idx, changeset,
                   list_summary, fcs, pending, report, pc, origin, processed,
                   aborted, interp, pre>>

NextTemplate == TemplateStep

SpecTemplate == InitTemplate /\ [][NextTemplate]_vars

\* template_resolver on one name: a value ("some"), no value ("none") or the
\* stack underflow ("err"), and the stack it leaves.
TemplateResolver(name, stack) ==
    IF name \notin {<<"t", "o", "p">>, <<"p", "o", "p">>}
    THEN [kind |-> "none", value |-> <<>>, stack |-> stack]
    ELSE IF stack = <<>> THEN [kind |-> "err", value |-> <<>>, stack |-> stack]
    ELSE [kind |-> "some", value |-> stack[Len(stack)],
          stack |-> IF name = <<"p", "o", "p">>
                    THEN SubSeq(stack, 1, Len(stack) - 1) ELSE stack]

\* Where the placeholder that starts at byte i ends (-1: none starts there):
\* $ and an identifier, or ${ and a non-empty text without } and then }.
PlaceholderEnd(s, i) ==
    IF i + 1 >= Len(s) \/ s[i + 1] # "$" THEN -1
    ELSE IF s[i + 2] \in AlphaChars THEN IdentEnd(s, i + 1)
    ELSE IF s[i + 2] = "{" /\ BraceRunEnd(s, i + 2) > i + 2
               /\ BraceRunEnd(s, i + 2) < Len(s)
    THEN BraceRunEnd(s, i + 2) + 1
    ELSE -1

\* The name of the placeholder s[i..e).
PlaceholderName(s, i, e) ==
    IF s[i + 2] = "{" THEN Slice(s, i + 2, e - 1) ELSE Slice(s, i + 1, e)

\* One substitution from left to right, from byte i on: every placeholder is
\* resolved when it is met, and its value or, without a value, its own text
\* is written out; out is what has been written so far.
RECURSIVE Substituted(_, _, _, _)
Substituted(s, i, stack, out) ==
    IF i >= Len(s) THEN [ok |-> TRUE, stack |-> stack, text |-> out]
    ELSE Let(PlaceholderEnd(s, i), LAMBDA e :
             IF e < 0 THEN Substituted(s, i + 1, stack, Append(out, s[i + 1]))
             ELSE Let(TemplateResolver(PlaceholderName(s, i, e), stack), LAMBDA v :
                      IF v.kind = "err" THEN [ok |-> FALSE, stack |-> stack, text |-> <<>>]
                      ELSE Substituted(s, e, v.stack,
                                       out \o (IF v.kind = "some" THEN v.value
                                               ELSE Slice(s, i, e)))))

\* C15: template(s, r) is s with every placeholder for which r has a value
\* replaced by the value, and everything else as written: the replacements
\* collected left to right and applied back to front give what one
\* substitution from left to right gives, whatever the lengths of the values.
TemplateIsSubstitution ==
    (pc = "template" /\ call.status = "returned") =>
        LET ref == Substituted(call.template, 0, call.stack, <<>>)
        IN  /\ call.ret.ok = ref.ok
            /\ ref.ok => (call.ret.text = ref.text /\ call.ret.stack = ref.stack)

\* Two placeholders are replaced, the first by a longer text, and a third
\* text without a value stays.
TemplateWitness ==
    /\ pc = "template"
    /\ call.status = "returned"
    /\ call.ret.ok
    /\ call.template = <<"$", "t", "o", "p", "$", "{", "p", "o", "p", "}", "$", "x">>
    /\ call.stack = <<<<"y", "y", "y", "y", "y", "y", "y">>>>
    /\ call.ret.stack = <<>>
    /\ call.ret.text = call.stack[1] \o call.stack[1] \o <<"$", "x">>

(***************************************************************************)
(* Runs that push up to two texts and then write with an argument made of  *)
(* placeholders.                                                           *)
(***************************************************************************)
\* What fills the stack before the writing operation.
ExpandPrefixes == {<<>>, <<"push">>, <<"push", "whole", "push">>}

\* The argument that is expanded.
ExpandTokens == {"x", "$top", "$pop", "$top$pop", "${pop}$pop", "$y"}

ExpandProgs ==
    {pushes \o tail :
        pushes \in ExpandPrefixes,
        tail \in {<<"replace", t>> : t \in ExpandTokens}
                 \cup {<<"sub", "x", t>> : t \in ExpandTokens}
                 \cup {<<"sa", "x", t>> : t \in ExpandTokens}}

InitExpand ==
    /\ MainAtRest
    /\ args = NoArgs
    /\ overflow_checks = TRUE
    /\ pc = "interp"
    /\ \E prog \in ExpandProgs, hay \in RunTexts :
           \E span \in ValidSpans(hay) : interp = StartRun(prog, hay, span)
    /\ pre = Idle
    /\ call = NoCall

NextExpand == RunStep

SpecExpand == InitExpand /\ [][NextExpand]_vars

\* The latest operation was a writer whose selection lay within the buffer;
\* its expanded argument is the last one.
WriterDone ==
    /\ LastOp \in {"Replace", "Substitute", "SubstituteAll"}
    /\ SliceOk(pre.hay, pre.span.start, pre.span.end)

\* C21: the placeholders of the argument of replace, substitute and
\* substitute-all are resolved from left to right against the stack: $top
\* yields the top and leaves the stack as it is, each $pop yields the top and
\* removes it, and a $top or $pop met with an empty stack makes the operation
\* fail with StackUnderflow, the buffer as it was.
PlaceholdersResolveLeftToRight ==
    WriterDone =>
        LET arg == TokenBytes(LastArgs[Len(LastArgs)])
            ref == Substituted(arg, 0, pre.stack, <<>>)
        IN  IF ~ref.ok
            THEN interp.status = "StackUnderflow" /\ interp.hay = pre.hay
            ELSE /\ interp.status = "running"
                 /\ interp.stack = ref.stack
                 /\ LastOp = "Replace" => NewlyWritten = ref.text

\* replace ${pop}$pop on a stack of two different texts: the top comes first.
PlaceholdersWitness ==
    /\ WriterDone
    /\ LastOp = "Replace"
    /\ LastArgs = <<"${pop}$pop">>
    /\ Len(pre.stack) = 2
    /\ pre.stack[1] # pre.stack[2]
    /\ interp.status = "running"
    /\ interp.stack = <<>>
    /\ NewlyWritten = pre.stack[2] \o pre.stack[1]

\* The second placeholder meets an empty stack after the first one popped.
UnderflowMidwayWitness ==
    /\ WriterDone
    /\ LastArgs[Len(LastArgs)] = "${pop}$pop"
    /\ Len(pre.stack) = 1
    /\ interp.status = "StackUnderflow"
    /\ interp.hay = pre.hay

(***************************************************************************)
(* src/message.rs                                                          *)
(***************************************************************************)
\* CompilerMessage::is_singular; aborting stands for a message text that
\* starts with "aborting due".
IsSingular(m) == m.level # "failure-note" /\ ~m.aborting

\* CompilerMessage::primary_spans, as the indices of the spans.
PrimarySpans(m) ==
    LET all == [i \in 1..Len(m.spans) |-> i]
    IN  SelectSeq(all, LAMBDA i : m.spans[i].is_primary)

\* Span::raw_text
RawText(span) == Concat([i \in 1..Len(span.text) |-> span.text[i].text])

\* SpanText::highlighted_span
HighlightedSpan(part) == MkSpan(part.highlight_start - 1, part.highlight_end - 1)

\* CompilerMessage::help_items: the spans with a suggested replacement of the
\* children whose level is "help", in order.
HelpItems(m) ==
    LET help == SelectSeq(m.children, LAMBDA c : c.level = "help")
    IN  Concat([i \in 1..Len(help) |->
                   SelectSeq(help[i].spans, LAMBDA sp : sp.suggested_replacement.some)])

\* Suggestions in the order of their ranges' starts, ties in input order.
RECURSIVE SortSuggestions(_)
SortSuggestions(ss) ==
    IF ss = <<>> THEN <<>>
    ELSE LET sorted == SortSuggestions(SubSeq(ss, 1, Len(ss) - 1))
             s == ss[Len(ss)]
             k == Cardinality({i \in 1..Len(sorted) :
                                   sorted[i].range.start <= s.range.start})
         IN  SubSeq(sorted, 1, k) \o <<s>> \o SubSeq(sorted, k + 1, Len(sorted))

\* The suggestions that CompilerMessage::spans_with_suggestions pairs with a
\* primary span.
SuggestionsFor(m, primary) ==
    LET eligible == SelectSeq(HelpItems(m),
                        LAMBDA h : RawText(primary) = RawText(h) /\ Len(h.text) = 1)
    IN  SortSuggestions([i \in 1..Len(eligible) |->
            [range |-> HighlightedSpan(eligible[i].text[1]),
             text |-> eligible[i].suggested_replacement.value]])

\* Span::outer_byte_range: the byte range that covers all fragments of the span.
OuterByteRange(span) == MkSpan(span.outer_start, span.outer_end)

(***************************************************************************)
(* src/selector.rs                                                         *)
(***************************************************************************)
\* The number of a code that matches ^E(\d+)$, -1 for any other code.
ErrorNumber(code) ==
    CASE code = "E1" -> 1
      [] code = "E01" -> 1
      [] code = "E2" -> 2
      [] OTHER -> -1

\* TopLevelSelector::matches; a message without a code has code "".
SelectorMatches(sel, m) ==
    CASE sel.kind \in {"List", "All"} -> m.code # ""
      [] sel.kind = "Error" -> m.code # "" /\ ErrorNumber(m.code) = sel.num
      [] sel.kind = "Lint" -> m.code # "" /\ m.code = sel.name

(***************************************************************************)
(* src/operation.rs: Operation::compute_diffs                              *)
(***************************************************************************)
\* Stand-in for 2^64, the modulus of usize arithmetic in a build without
\* overflow checks.
UsizeModulus == 1073741824

\* a - b on usize: a panic with overflow checks, wrapping without.
USub(a, b, checks) ==
    IF a >= b THEN [ok |-> TRUE, v |-> a - b]
    ELSE IF checks THEN [ok |-> FALSE, v |-> 0]
    ELSE [ok |-> TRUE, v |-> a - b + UsizeModulus]

\* One iteration of the loop over the suggestions (lines 313-326): the
\* selection re-anchored for the suggestion s and the text rewritten at its
\* range; not ok when a subtraction or replace_range panics.
FoldOne(s, sel, text, checks) ==
    LET n == Len(s.text)
        moved ==
            IF s.range.end <= sel.start
            THEN LET a == USub(sel.start, n, checks)
                     b == USub(sel.end, n, checks)
                 IN  [ok |-> a.ok /\ b.ok, sel |-> MkSpan(a.v, b.v)]
            ELSE IF s.range.end <= sel.end
            THEN [ok |-> TRUE,
                  sel |-> MkSpan(s.range.start,
                                 s.range.start + (sel.end - s.range.end))]
            ELSE IF s.range.start <= sel.end
            THEN [ok |-> TRUE,
                  sel |-> MkSpan(Min(sel.start, s.range.start), s.range.start)]
            ELSE [ok |-> TRUE, sel |-> sel]
    IN  IF ~moved.ok \/ ~SliceOk(text, s.range.start, s.range.end)
        THEN [ok |-> FALSE, sel |-> sel, text |-> text]
        ELSE [ok |-> TRUE, sel |-> moved.sel,
              text |-> ReplaceRange(text, s.range, s.text)]

\* The loop over suggestions.into_iter().rev() for one fragment: the selection
\* re-anchored and the text rewritten, suggestion by suggestion, last first.
RECURSIVE FoldSuggestions(_, _, _, _)
FoldSuggestions(sugg, sel, text, checks) ==
    IF sugg = <<>> THEN [ok |-> TRUE, sel |-> sel, text |-> text]
    ELSE Let(FoldOne(sugg[Len(sugg)], sel, text, checks), LAMBDA t :
             IF ~t.ok THEN t
             ELSE FoldSuggestions(SubSeq(sugg, 1, Len(sugg) - 1), t.sel, t.text, checks))

\* One fragment of a span (lines 306-338): the status of its run and its text.
FragmentResult(operation, part, sugg, checks) ==
    Let(IF operation.suggestion
        THEN FoldSuggestions(sugg, HighlightedSpan(part), part.text, checks)
        ELSE [ok |-> TRUE, sel |-> HighlightedSpan(part), text |-> part.text],
        LAMBDA folded :
            IF ~folded.ok THEN [status |-> "panic", text |-> <<>>]
            ELSE Let(Run(StartRun(operation.ops, folded.text, folded.sel)), LAMBDA r :
                     [status |-> r.status, text |-> r.hay]))

\* A failed fragment is left out and the span goes on with the next one (a
\* continue of the inner loop).
RECURSIVE SpanResultSkipsFragment(_, _, _, _, _, _)
SpanResultSkipsFragment(operation, span, sugg, checks, k, new) ==
    IF k > Len(span.text) THEN [kind |-> "ok", bytes |-> new]
    ELSE Let(FragmentResult(operation, span.text[k], sugg, checks), LAMBDA f :
             IF f.status = "ok"
             THEN SpanResultSkipsFragment(operation, span, sugg, checks, k + 1,
                                          new \o f.text)
             ELSE IF StopAll(f.status) THEN [kind |-> f.status, bytes |-> <<>>]
             ELSE SpanResultSkipsFragment(operation, span, sugg, checks, k + 1, new))

\* The fragments of one primary span from fragment k on: kind is "ok" with the
\* concatenated text, or the status of the first run that failed.
RECURSIVE SpanResult(_, _, _, _, _, _)
SpanResult(operation, span, sugg, checks, k, new) ==
    IF k > Len(span.text) THEN [kind |-> "ok", bytes |-> new]
    ELSE Let(FragmentResult(operation, span.text[k], sugg, checks), LAMBDA f :
             IF f.status # "ok" THEN [kind |-> f.status, bytes |-> <<>>]
             ELSE SpanResult(operation, span, sugg, checks, k + 1, new \o f.text))


\* A loop that ends with Ok(changes), the changes made so far, where
\* compute_diffs returns Err(()) (a break of 'spans).
RECURSIVE DiffsKeepPartial(_, _, _, _, _, _)
DiffsKeepPartial(operation, m, checks, prim, changes, from) ==
    IF prim = <<>> THEN [kind |-> "ok", changes |-> changes, from |-> from]
    ELSE Let(m.spans[Head(prim)], LAMBDA span :
         Let(SpanResult(operation, span, SuggestionsFor(m, span), checks, 1, <<>>),
             LAMBDA r :
             IF r.kind = "panic" THEN [kind |-> "panic", changes |-> <<>>, from |-> <<>>]
             ELSE IF r.kind = "ok"
             THEN Let(<<Append(changes,
                               MkChange(span.file_name,
                                        MkPatch(OuterByteRange(span).start,
                                                OuterByteRange(span).end, r.bytes))),
                        Append(from, Head(prim))>>,
                      LAMBDA t :
                          DiffsKeepPartial(operation, m, checks, Tail(prim), t[1], t[2]))
             ELSE IF StopAll(r.kind)
             THEN [kind |-> "ok", changes |-> changes, from |-> from]
             ELSE DiffsKeepPartial(operation, m, checks, Tail(prim), changes, from)))

\* The 'spans loop of compute_diffs over the primary spans prim: kind is "ok"
\* (Ok(changes)), "err" (Err(())) or "panic"; from names, for each change, the
\* span it comes from.
RECURSIVE DiffsLoop(_, _, _, _, _, _)
DiffsLoop(operation, m, checks, prim, changes, from) ==
    IF prim = <<>> THEN [kind |-> "ok", changes |-> changes, from |-> from]
    ELSE Let(m.spans[Head(prim)], LAMBDA span :
         Let(SpanResult(operation, span, SuggestionsFor(m, span), checks, 1, <<>>),
             LAMBDA r :
             IF r.kind = "panic" THEN [kind |-> "panic", changes |-> <<>>, from |-> <<>>]
             ELSE IF r.kind = "ok"
             THEN Let(<<Append(changes,
                               MkChange(span.file_name,
                                        MkPatch(OuterByteRange(span).start,
                                                OuterByteRange(span).end, r.bytes))),
                        Append(from, Head(prim))>>,
                      LAMBDA t : DiffsLoop(operation, m, checks, Tail(prim), t[1], t[2]))
             ELSE IF StopAll(r.kind)
             THEN [kind |-> "err", changes |-> <<>>, from |-> <<>>]
             ELSE DiffsLoop(operation, m, checks, Tail(prim), changes, from)))

\* A compute_diffs that runs the program on every span, primary or not.
ComputeDiffsAllSpans(operation, m, checks) ==
    DiffsLoop(operation, m, checks, [i \in 1..Len(m.spans) |-> i], <<>>, <<>>)

\* Operation::compute_diffs
ComputeDiffs(operation, m, checks) ==
    DiffsLoop(operation, m, checks, PrimarySpans(m), <<>>, <<>>)

(***************************************************************************)
(* The inputs of a whole run: the diagnostic stream and the command line.  *)
(***************************************************************************)
NoReplacement == [some |-> FALSE, value |-> <<>>]

Fragment(text, hs, he) == [text |-> text, highlight_start |-> hs, highlight_end |-> he]

MkSpanRec(f, os, oe, text, primary) ==
    [file_name |-> f, outer_start |-> os, outer_end |-> oe, text |-> text,
     is_primary |-> primary, suggested_replacement |-> NoReplacement]

Message(code, level, spans, children) ==
    [reason |-> "compiler-message", code |-> code, level |-> level,
     aborting |-> FALSE, spans |-> spans, children |-> children]

\* The line "ax" of file A with its x highlighted, and the line "c" of file B.
LineA == Fragment(<<"a", "x">>, 2, 3)

LineB == Fragment(<<"c">>, 1, 2)

\* A help note that suggests "bx" for the x of line "ax".
HelpA ==
    [reason |-> "compiler-message", code |-> "", level |-> "help", aborting |-> FALSE,
     children |-> <<>>,
     spans |-> <<[MkSpanRec("A", 1, 2, <<LineA>>, TRUE) EXCEPT
                     !.suggested_replacement = [some |-> TRUE, value |-> <<"b", "x">>]]>>]

\* The records a stream is made of; a stream names them by their place here.
DiagPool ==
    << \* one primary span, one fragment with an x, and a suggestion
      Message("E1", "error", <<MkSpanRec("A", 0, 2, <<LineA>>, TRUE)>>, <<HelpA>>),
      \* one primary span, one fragment without an x
      Message("dead_code", "warning", <<MkSpanRec("B", 0, 1, <<LineB>>, TRUE)>>, <<>>),
      \* one primary span without fragments
      Message("E1", "error", <<MkSpanRec("B", 0, 1, <<>>, TRUE)>>, <<>>),
      \* a primary span without fragments, then one with an x
      Message("E2", "error", <<MkSpanRec("A", 0, 1, <<>>, TRUE),
                               MkSpanRec("A", 1, 2, <<LineA>>, TRUE)>>, <<>>),
      \* a primary span of two fragments, the second without an x, a span that
      \* is not primary, and a primary span with an x
      Message("E1", "error", <<MkSpanRec("B", 0, 1, <<LineA, LineB>>, TRUE),
                               MkSpanRec("B", 0, 1, <<LineB>>, FALSE),
                               MkSpanRec("A", 0, 2, <<LineA>>, TRUE)>>, <<>>),
      \* a message without a code
      Message("", "warning", <<MkSpanRec("A", 0, 2, <<LineA>>, TRUE)>>, <<>>),
      \* the closing failure note, and a record that is no compiler message
      [Message("E1", "failure-note", <<>>, <<>>) EXCEPT !.aborting = TRUE],
      [Message("", "", <<>>, <<>>) EXCEPT !.reason = "build-finished"] >>

\* The operation programs of whole runs: one that succeeds on a text with an x,
\* one for each error that stops all, reached after "first x" matched, and one
\* that succeeds on every text.
MainProgs ==
    { <<"zero", "replace", "x">>,
      <<"first", "x", "delete">>,
      <<"first", "x", "s-drop">>,
      <<"first", "x", "bogus">>,
      <<"first", "x", "next", "(">>,
      <<"first", "x", "replace">> }

MkSelector(kind, num, name) == [kind |-> kind, num |-> num, name |-> name]

Selectors == {MkSelector("List", 0, ""), MkSelector("All", 0, ""),
              MkSelector("Error", 1, ""), MkSelector("Lint", 0, "dead_code")}

ArgsPool ==
    {[write |-> w, single |-> s, selector |-> sel, suggestion |-> a, ops |-> prog] :
        w \in BOOLEAN, s \in BOOLEAN, sel \in Selectors, a \in BOOLEAN,
        prog \in MainProgs}

\* Args.operation
OperationOf(a) == [suggestion |-> a.suggestion, ops |-> a.ops]

(***************************************************************************)
(* src/main.rs: the loop over the lines of the stream, then group and write *)
(***************************************************************************)
\* The overflow checks of the build matter to the suggestions alone, so they
\* are drawn only with args.suggestion.
Init ==
    /\ files = InitFiles
    /\ args \in ArgsPool
    /\ overflow_checks \in (IF args.suggestion THEN BOOLEAN ELSE {TRUE})
    /\ diags \in SeqsUpTo(DOMAIN DiagPool, MaxDiags)
    /\ idx = 1
    /\ changeset = <<>>
    /\ list_summary = {}
    /\ fcs = <<>>
    /\ pending = {}
    /\ report = <<>>
    /\ pc = "loop"
    /\ origin = <<>>
    /\ processed = <<>>
    /\ aborted = 0
    /\ interp = Idle
    /\ pre = Idle
    /\ call = NoCall

\* The record of line i of the stream.
Line(i) == DiagPool[diags[i]]

\* The message of line i reaches the selector and is accepted.
AcceptedAt(i) ==
    /\ i <= Len(diags)
    /\ Line(i).reason = "compiler-message"
    /\ IsSingular(Line(i))
    /\ SelectorMatches(args.selector, Line(i))

Accepted == AcceptedAt(idx)

\* A line that is no singular compiler message, or that the selector rejects.
SkipLine ==
    /\ pc = "loop"
    /\ idx <= Len(diags)
    /\ ~Accepted
    /\ idx' = idx + 1
    /\ UNCHANGED <<files, args, overflow_checks, diags, changeset,
                   list_summary, fcs, pending, report, pc, origin, processed,
                   aborted, interp, pre, call>>

\* The list selector: the files of the message's spans are noted under its code.
ListLine ==
    /\ pc = "loop"
    /\ Accepted
    /\ args.selector.kind = "List"
    /\ list_summary' = list_summary \cup
           {<<Line(idx).code, Line(idx).spans[i].file_name>> :
               i \in 1..Len(Line(idx).spans)}
    /\ idx' = idx + 1
    /\ UNCHANGED <<files, args, overflow_checks, diags, changeset, fcs,
                   pending, report, pc, origin, processed, aborted, interp,
                   pre, call>>

\* An error of compute_diffs empties the Change list.
ExtendedOrCleared(changes, r) ==
    IF r.kind = "ok" THEN changes \o r.changes ELSE <<>>

\* main 81-89: changeset.extend(changes) on Ok(changes), nothing on Err(()).
Extended(changes, r) ==
    IF r.kind = "ok" THEN changes \o r.changes ELSE changes

\* Only an error ends the loop: the stop-after-first flag is not looked at.
LoopEndsOnError(r, single) == r.kind = "err"

\* Only the stop-after-first flag ends the loop.
LoopEndsOnSingle(r, single) == r.kind = "ok" /\ single

\* main 81-93: break on Err(()), and after the first processed message when
\* args.single is set.
LoopEnds(r, single) == r.kind = "err" \/ (r.kind = "ok" /\ single)

\* compute_diffs on the message of line idx, and what the loop does with its
\* result.
DiffLine ==
    /\ pc = "loop"
    /\ Accepted
    /\ args.selector.kind # "List"
    /\ \E r \in {ComputeDiffs(OperationOf(args), Line(idx), overflow_checks)} :
         /\ processed' = Append(processed, idx)
         /\ changeset' = Extended(changeset, r)
         /\ origin' = IF r.kind = "ok"
                      THEN origin \o [i \in 1..Len(r.from) |-> <<idx, r.from[i]>>]
                      ELSE origin
         /\ aborted' = IF r.kind = "err" THEN idx ELSE aborted
         /\ pc' = CASE r.kind = "panic" -> "panicked"
                    [] LoopEnds(r, args.single) -> "group"
                    [] OTHER -> "loop"
         /\ idx' = IF r.kind = "panic" \/ LoopEnds(r, args.single) THEN idx ELSE idx + 1
    /\ UNCHANGED <<files, args, overflow_checks, diags, list_summary, fcs,
                   pending, report, interp, pre, call>>

\* The stream is exhausted.
EndOfStream ==
    /\ pc = "loop"
    /\ idx > Len(diags)
    /\ pc' = "group"
    /\ UNCHANGED <<files, args, overflow_checks, diags, idx, changeset,
                   list_summary, fcs, pending, report, origin, processed,
                   aborted, interp, pre, call>>

\* A main that writes the FileChangeSets whether or not args.write is set.
GroupStepWritesAnyway ==
    /\ pc = "group"
    /\ \E g \in {Group(changeset)} :
           IF ~g.ok
           THEN /\ pc' = "panicked"
                /\ UNCHANGED <<fcs, pending, report>>
           ELSE /\ fcs' = g.sets
                /\ report' = <<Len(changeset), Cardinality(DOMAIN g.sets)>>
                /\ pending' = DOMAIN g.sets
                /\ pc' = IF DOMAIN g.sets # {} THEN "write" ELSE "done"
    /\ UNCHANGED <<files, args, overflow_checks, diags, idx, changeset,
                   list_summary, origin, processed, aborted, interp, pre,
                   call>>

\* main 108-115: group the changes and print the two counts; the assertion of
\* group may panic.
GroupStep ==
    /\ pc = "group"
    /\ \E g \in {Group(changeset)} :
           IF ~g.ok
           THEN /\ pc' = "panicked"
                /\ UNCHANGED <<fcs, pending, report>>
           ELSE /\ fcs' = g.sets
                /\ report' = <<Len(changeset), Cardinality(DOMAIN g.sets)>>
                /\ pending' = IF args.write THEN DOMAIN g.sets ELSE {}
                /\ pc' = IF args.write /\ DOMAIN g.sets # {} THEN "write" ELSE "done"
    /\ UNCHANGED <<files, args, overflow_checks, diags, idx, changeset,
                   list_summary, origin, processed, aborted, interp, pre,
                   call>>

\* main 116-120: fc.write().unwrap() for the next FileChangeSet, in the order
\* of the HashMap; a splice out of the buffer panics before anything is written.
WriteStep ==
    /\ pc = "write"
    /\ \E f \in pending :
         \E w \in {WriteBuffer(files[f], fcs[f])} :
             IF ~w.ok
             THEN /\ pc' = "panicked"
                  /\ UNCHANGED <<files, pending>>
             ELSE /\ files' = [files EXCEPT ![f] = w.buf]
                  /\ pending' = pending \ {f}
                  /\ pc' = IF pending = {f} THEN "done" ELSE "write"
    /\ UNCHANGED <<args, overflow_checks, diags, idx, changeset, list_summary,
                   fcs, report, origin, processed, aborted, interp, pre,
                   call>>

\* A failure that undoes the writes already made.
WriteFailsRollsBack ==
    /\ pc = "write"
    /\ pending # {}
    /\ files' = InitFiles
    /\ pc' = "io_error"
    /\ UNCHANGED <<args, overflow_checks, diags, idx, changeset, list_summary,
                   fcs, pending, report, origin, processed, aborted, interp,
                   pre, call>>

\* fs::read or fs::write of the next FileChangeSet fails and unwrap panics:
\* the file is as it was when it could not be read or opened, and holds a
\* proper prefix of the new buffer when the write broke off.
WriteFails ==
    /\ pc = "write"
    /\ \E f \in pending :
         \E w \in {WriteBuffer(files[f], fcs[f])} :
             \E left \in {files[f]} \cup
                         (IF w.ok THEN {Slice(w.buf, 0, k) : k \in 0..(Len(w.buf) - 1)}
                          ELSE {}) :
                 files' = [files EXCEPT ![f] = left]
    /\ pc' = "io_error"
    /\ UNCHANGED <<args, overflow_checks, diags, idx, changeset, list_summary,
                   fcs, pending, report, origin, processed, aborted, interp,
                   pre, call>>

Next ==
    \/ SkipLine
    \/ ListLine
    \/ DiffLine
    \/ EndOfStream
    \/ GroupStep
    \/ WriteStep
    \/ WriteFails

Spec == Init /\ [][Next]_vars

(***************************************************************************)
(* FileChangeSet::group and write on a Change list drawn at the start.     *)
(***************************************************************************)
ApplyBytes == {<<>>, <<"y", "z">>}

\* Largest byte offset of a patch handed directly to FileChangeSet::group: the
\* length of the longer file, which is past the end of the shorter one.
MaxOff == Len(InitFiles["A"])

ChangePool ==
    {MkChange(f, MkPatch(s, e, b)) :
        f \in File, s \in 0..MaxOff, e \in 0..MaxOff, b \in ApplyBytes}
        \cap {c \in [file : File,
                     patch : [start : 0..MaxOff, end : 0..MaxOff, bytes : ApplyBytes]] :
                 c.patch.start <= c.patch.end}

InitApply ==
    /\ files = InitFiles
    /\ args \in {[NoArgs EXCEPT !.write = w] : w \in BOOLEAN}
    /\ overflow_checks = TRUE
    /\ diags = <<>>
    /\ idx = 1
    /\ changeset \in SeqsUpTo(ChangePool, MaxPatches)
    /\ list_summary = {}
    /\ fcs = <<>>
    /\ pending = {}
    /\ report = <<>>
    /\ pc = "group"
    /\ origin = <<>>
    /\ processed = <<>>
    /\ aborted = 0
    /\ interp = Idle
    /\ pre = Idle
    /\ call = NoCall

NextApply ==
    \/ GroupStep
    \/ WriteStep
    \/ WriteFails

SpecApply == InitApply /\ [][NextApply]_vars

(***************************************************************************)
(* Properties of group and write (SpecApply).                              *)
(***************************************************************************)
\* Two patches share a byte of the file.
ShareByte(p, q) ==
    /\ p.start < p.end
    /\ q.start < q.end
    /\ p.start < q.end
    /\ q.start < p.end

Pairs(n) == {ij \in (1..n) \X (1..n) : ij[1] < ij[2]}

\* The changes are pairwise non-overlapping patches of one file.
OneFileNoOverlap(changes) ==
    /\ \A ij \in Pairs(Len(changes)) :
           /\ changes[ij[1]].file = changes[ij[2]].file
           /\ ~ShareByte(changes[ij[1]].patch, changes[ij[2]].patch)

DistinctStarts(changes) ==
    \A ij \in Pairs(Len(changes)) :
        changes[ij[1]].patch.start # changes[ij[2]].patch.start

OrdersOf(n) ==
    {pi \in [1..n -> 1..n] : \A i, j \in 1..n : pi[i] = pi[j] => i = j}

\* The end of group followed by write on a Change list that names at most one
\* file, from the files before: whether it panicked, and the files after.
GroupThenWrite(before, changes) ==
    Let(Group(changes), LAMBDA g :
        IF ~g.ok THEN [panicked |-> TRUE, files |-> before]
        ELSE IF DOMAIN g.sets = {} THEN [panicked |-> FALSE, files |-> before]
        ELSE LET f == CHOOSE f \in DOMAIN g.sets : TRUE
             IN  Let(WriteBuffer(before[f], g.sets[f]), LAMBDA w :
                     IF ~w.ok THEN [panicked |-> TRUE, files |-> before]
                     ELSE [panicked |-> FALSE, files |-> [before EXCEPT ![f] = w.buf]]))

\* The run of group and write has ended, without an I/O failure.
ApplyEnded == args.write /\ pc \in {"done", "panicked"}

\* Every permutation of the Change list ends as this run ended.
SameForEveryOrder ==
    \A pi \in OrdersOf(Len(changeset)) :
        GroupThenWrite(InitFiles, [i \in 1..Len(changeset) |-> changeset[pi[i]]])
            = [panicked |-> pc = "panicked", files |-> files]

\* C1 as stated: for pairwise non-overlapping patches of one file, group then
\* write ends with the same file content for every permutation of the Change
\* list.
OrderIndependent ==
    (ApplyEnded /\ OneFileNoOverlap(changeset)) => SameForEveryOrder

\* C1, amended: for pairwise non-overlapping patches of one file whose start
\* offsets are pairwise distinct, group then write ends the same way (the same
\* file content, or a panic that leaves the file as it was) for every
\* permutation of the Change list.
OrderIndependentDistinctStarts ==
    (ApplyEnded /\ OneFileNoOverlap(changeset) /\ DistinctStarts(changeset))
        => SameForEveryOrder

\* Three patches of one file, handed over out of order, have been written.
OrderIndependentWitness ==
    /\ ApplyEnded
    /\ pc = "done"
    /\ Len(changeset) = 3
    /\ OneFileNoOverlap(changeset)
    /\ DistinctStarts(changeset)
    /\ changeset[1].patch.start > changeset[3].patch.start
    /\ files # InitFiles

\* Two patches of the Change list are for the same file and share a byte.
HasOverlap(changes) ==
    \E ij \in Pairs(Len(changes)) :
        /\ changes[ij[1]].file = changes[ij[2]].file
        /\ ShareByte(changes[ij[1]].patch, changes[ij[2]].patch)

\* C2: when two patches of one file overlap, group fails before any write
\* begins, and no file of the run is ever modified.
OverlapWritesNothing ==
    HasOverlap(changeset)
        => /\ files = InitFiles
           /\ pc \in {"group", "panicked"}
           /\ pending = {}

\* Group has panicked in write mode on an overlap in one file while the Change
\* list also holds a patch for the other file.
OverlapWitness ==
    /\ pc = "panicked"
    /\ args.write
    /\ HasOverlap(changeset)
    /\ FilesOf(changeset) = File

\* Each byte range of orig replaced by the bytes of its patch, all at once:
\* the patches are sorted, do not overlap and lie within orig; from is the end
\* of the range before.
RECURSIVE SimultaneousReplace(_, _, _)
SimultaneousReplace(orig, patches, from) ==
    IF patches = <<>> THEN Slice(orig, from, Len(orig))
    ELSE Slice(orig, from, Head(patches).start) \o Head(patches).bytes
             \o SimultaneousReplace(orig, Tail(patches), Head(patches).end)

InRange(orig, patches) == \A i \in 1..Len(patches) : patches[i].end <= Len(orig)

\* The FileChangeSet of file f has been written.
Written(f) ==
    /\ args.write
    /\ pc \in {"write", "done", "io_error", "panicked"}
    /\ f \in DOMAIN fcs
    /\ f \notin pending

\* C3: write on a FileChangeSet whose ranges lie within the file never panics
\* and leaves the file as the simultaneous replacement of every range by its
\* patch bytes.
WriteIsSimultaneousReplace ==
    /\ \A f \in File :
           (Written(f) /\ InRange(InitFiles[f], fcs[f]))
               => files[f] = SimultaneousReplace(InitFiles[f], fcs[f], 0)
    /\ (pc = "panicked" /\ pending # {})
           => \E f \in pending : ~InRange(InitFiles[f], fcs[f])

\* Two patches of file A, the first of which changes the length, are written.
WriteWitness ==
    /\ Written("A")
    /\ pc = "done"
    /\ Len(fcs["A"]) = 2
    /\ InRange(InitFiles["A"], fcs["A"])
    /\ Len(fcs["A"][1].bytes) # fcs["A"][1].end - fcs["A"][1].start
    /\ fcs["A"][2].start < fcs["A"][2].end
    /\ fcs["A"][2].bytes # <<>>

(***************************************************************************)
(* Properties of the loop over the diagnostics (Spec).                     *)
(***************************************************************************)
\* The errors of a run other than NoMatches.
FatalKinds == {"UnknownOp", "InvalidRegex", "NotEnoughArguments", "StackUnderflow"}

\* Line d is handed to compute_diffs when the loop reaches it.
Handled(d) == AcceptedAt(d) /\ args.selector.kind # "List"

\* What the run of fragment j of a span ends with.
FragStatus(m, span, j) ==
    FragmentResult(OperationOf(args), span.text[j], SuggestionsFor(m, span),
                   overflow_checks).status

\* What the first run of a span that does not succeed ends with, "ok" when all
\* succeed.
SpanKind(m, span) ==
    LET bad == {j \in 1..Len(span.text) : FragStatus(m, span, j) # "ok"}
    IN  IF bad = {} THEN "ok"
        ELSE FragStatus(m, span, CHOOSE j \in bad : \A k \in bad : j <= k)

\* SpanKind of each primary span of m, in order.
PrimaryKinds(m) ==
    [k \in 1..Len(PrimarySpans(m)) |-> SpanKind(m, m.spans[PrimarySpans(m)[k]])]

\* The primary spans before the k-th raise nothing but NoMatches, so that the
\* runs of the k-th take place.
Reached(kinds, k) == \A j \in 1..(k - 1) : kinds[j] \in {"ok", "NoMatches"}

\* How the runs of diagnostic m end: the first fatal error or panic, or "ok".
DiagEnd(m) ==
    LET kinds == PrimaryKinds(m)
        bad == {k \in 1..Len(kinds) : kinds[k] \notin {"ok", "NoMatches"}}
    IN  IF bad = {} THEN "ok" ELSE kinds[CHOOSE k \in bad : \A j \in bad : k <= j]

\* A run of diagnostic m raises NoMatches.
RaisesNoMatches(m) ==
    LET kinds == PrimaryKinds(m)
    IN  \E k \in 1..Len(kinds) : kinds[k] = "NoMatches" /\ Reached(kinds, k)

\* The diagnostics handed to compute_diffs in which a run failed fatally.
FatalProcessed ==
    {i \in 1..Len(processed) : DiagEnd(Line(processed[i])) \in FatalKinds}

\* The changes of the diagnostics before line d.
ChangesBefore(d) ==
    Concat([e \in 1..(d - 1) |->
               IF Handled(e)
               THEN ComputeDiffs(OperationOf(args), Line(e), overflow_checks).changes
               ELSE <<>>])

Count(seq, x) == Cardinality({k \in 1..Len(seq) : seq[k] = x})

\* C4: after a fatal error in a diagnostic, the changes of the diagnostics
\* before it are still in the Change list, they are in the FileChangeSets once
\* group has returned them, and in write mode the files of those changes hold
\* them when the run is done.
FatalKeepsEarlierChanges ==
    \A i \in FatalProcessed :
        LET earlier == ChangesBefore(processed[i])
        IN  /\ Len(changeset) >= Len(earlier)
            /\ SubSeq(changeset, 1, Len(earlier)) = earlier
            /\ pc \in {"write", "done", "io_error"}
                   => \A j \in 1..Len(earlier) :
                          /\ earlier[j].file \in DOMAIN fcs
                          /\ Count(fcs[earlier[j].file], earlier[j].patch)
                                 >= Count(PatchesOf(earlier, earlier[j].file),
                                          earlier[j].patch)
            /\ (pc = "done" /\ args.write)
                   => \A f \in FilesOf(earlier) :
                          files[f] = SimultaneousReplace(InitFiles[f], fcs[f], 0)

\* A write-mode run is done after a fatal error, and a change of an earlier
\* diagnostic has been written.
FatalKeepsEarlierWitness ==
    /\ pc = "done"
    /\ args.write
    /\ aborted # 0
    /\ FatalProcessed # {}
    /\ ChangesBefore(aborted) # <<>>
    /\ files # InitFiles

\* C5 as stated: after a fatal error no file is written.
FatalWritesNothing == FatalProcessed # {} => files = InitFiles

\* C5, amended: after a fatal error the loop is over and the diagnostic that
\* failed is the last one processed; a file changes only in write mode and only
\* by the changes of earlier diagnostics, which are all the run writes.
FatalAbortsAndWritesEarlierOnly ==
    \A i \in FatalProcessed :
        LET earlier == ChangesBefore(processed[i])
        IN  /\ i = Len(processed)
            /\ pc # "loop"
            /\ \A f \in File :
                   files[f] # InitFiles[f] => (args.write /\ f \in FilesOf(earlier))
            /\ (pc = "done" /\ args.write)
                   => \A f \in File :
                          files[f] = SimultaneousReplace(
                                         InitFiles[f],
                                         SortByStart(PatchesOf(earlier, f)), 0)

\* A dry run and a write-mode run, each done after a fatal error that followed
\* a diagnostic with a change.
FatalAbortsWitness ==
    /\ pc = "done"
    /\ FatalProcessed # {}
    /\ Len(processed) >= 2
    /\ aborted = processed[Len(processed)]
    /\ changeset # <<>>
    /\ args.write => files # InitFiles

FatalStopsProcessing ==
    /\ \A i, j \in 1..Len(processed) : i < j => processed[i] < processed[j]
    /\ \A i \in FatalProcessed :
           /\ i = Len(processed)
           /\ pc # "loop"
           /\ \A k \in 1..Len(origin) : origin[k][1] <= processed[i]
           /\ args.single
                  \/ \A e \in 1..(processed[i] - 1) : Handled(e) => e \in Range(processed)

\* The run is done after a fatal error in a diagnostic that has one processed
\* before it and one due after it.
FatalStopsWitness ==
    /\ pc = "done"
    /\ aborted # 0
    /\ FatalProcessed # {}
    /\ Len(processed) >= 2
    /\ \E e \in (aborted + 1)..Len(diags) : Handled(e)

\* The processed diagnostics in which a run raised NoMatches and none failed
\* fatally or panicked.
NoMatchesProcessed ==
    {i \in 1..Len(processed) :
        /\ RaisesNoMatches(Line(processed[i]))
        /\ DiagEnd(Line(processed[i])) = "ok"}

\* C8 as stated: a diagnostic in which a run raises NoMatches adds no change.
NoMatchesDiagnosticAddsNothing ==
    \A i \in NoMatchesProcessed :
        \A k \in 1..Len(origin) : origin[k][1] # processed[i]

\* C8, amended: a primary span in which a run raises NoMatches adds no change,
\* and the other primary spans of its diagnostic add theirs: one change each,
\* in the order of the spans.
NoMatchesSpanAddsNothing ==
    /\ Len(origin) = Len(changeset)
    /\ \A i \in NoMatchesProcessed :
           LET d == processed[i]
               prim == PrimarySpans(Line(d))
               kinds == PrimaryKinds(Line(d))
           IN  SelectSeq(origin, LAMBDA o : o[1] = d)
                   = [k \in 1..Cardinality({j \in 1..Len(kinds) : kinds[j] = "ok"}) |->
                         <<d, prim[CHOOSE j \in 1..Len(kinds) :
                                      /\ kinds[j] = "ok"
                                      /\ Cardinality({h \in 1..j : kinds[h] = "ok"}) = k]>>]

\* A diagnostic whose first primary span raised NoMatches in its second
\* fragment has added the change of another primary span.
NoMatchesSpanWitness ==
    \E i \in NoMatchesProcessed :
        /\ Len(Line(processed[i]).spans[1].text) = 2
        /\ PrimaryKinds(Line(processed[i]))[1] = "NoMatches"
        /\ \E k \in 1..Len(origin) : origin[k][1] = processed[i]
        /\ pc = "done"

\* stop_all is false for NoMatches and true for every other error.
StopAllOnlyFatal == ~StopAll("NoMatches") /\ \A kind \in FatalKinds : StopAll(kind)

\* No change comes from a primary span in which a run raised NoMatches.
NoMatchesSpansSilent ==
    \A i \in NoMatchesProcessed :
        LET d == processed[i]
            kinds == PrimaryKinds(Line(d))
        IN  \A k \in 1..Len(kinds) :
                kinds[k] = "NoMatches" => <<d, PrimarySpans(Line(d))[k]>> \notin Range(origin)

\* C9 as stated: NoMatches never aborts the run; stop_all tells it from the
\* other errors; its span adds no change; every diagnostic after it in the
\* stream is processed.
NoMatchesThenAllProcessed ==
    /\ StopAllOnlyFatal
    /\ NoMatchesSpansSilent
    /\ \A i \in NoMatchesProcessed :
           /\ aborted # processed[i]
           /\ pc \in {"write", "done"}
                  => \A e \in (processed[i] + 1)..Len(diags) :
                         Handled(e) => e \in Range(processed)

\* C9, amended: NoMatches never aborts the run; stop_all tells it from the
\* other errors; its span adds no change; unless the stop-after-first flag is
\* set the loop goes on, and a diagnostic after it is processed when its turn
\* comes, unless a diagnostic in between has ended the loop with a fatal error
\* or a panic.
NoMatchesLoopGoesOn ==
    /\ StopAllOnlyFatal
    /\ NoMatchesSpansSilent
    /\ \A i \in NoMatchesProcessed :
           /\ aborted # processed[i]
           /\ ~args.single => idx > processed[i]
           /\ ~args.single
                  => \A e \in (processed[i] + 1)..Len(diags) :
                         Handled(e)
                             => \/ e \in Range(processed)
                                \/ pc = "loop" /\ idx <= e
                                \/ \E h \in Range(processed) :
                                       /\ processed[i] < h
                                       /\ h < e
                                       /\ DiagEnd(Line(h)) # "ok"

\* After a diagnostic whose span raised NoMatches once an earlier fragment had
\* succeeded, a later diagnostic has been processed and the run is done.
NoMatchesLoopWitness ==
    /\ pc = "done"
    /\ ~args.single
    /\ \E i \in NoMatchesProcessed :
           /\ i < Len(processed)
           /\ Len(Line(processed[i]).spans[1].text) = 2
           /\ PrimaryKinds(Line(processed[i]))[1] = "NoMatches"

\* C17: without the write flag no file is modified, whatever the diagnostics
\* and the operation program, and no write is ever attempted; what the run
\* reports is the number of patches and the number of distinct files they
\* affect.
DryRunWritesNothing ==
    ~args.write =>
        /\ files = InitFiles
        /\ pc \notin {"write", "io_error"}
        /\ pending = {}
        /\ pc = "done" =>
               report = <<Len(changeset),
                          Cardinality({changeset[k].file : k \in 1..Len(changeset)})>>

\* A dry run has reported more patches than files, and more than one file.
DryRunWitness ==
    /\ ~args.write
    /\ pc = "done"
    /\ report[2] > 1
    /\ report[1] > report[2]

\* C18: the files are written one at a time and nothing is undone: when the
\* read or the write of one file fails, the run ends there, every file written
\* before keeps its new content and every file not yet reached is as it was.
WriteFailureKeepsWrittenFiles ==
    pc = "io_error" =>
        /\ args.write
        /\ ~ENABLED Next
        /\ \E f \in pending :
               \A g \in File \ {f} :
                   files[g] = IF g \in DOMAIN fcs /\ g \notin pending
                              THEN SimultaneousReplace(InitFiles[g], fcs[g], 0)
                              ELSE InitFiles[g]

\* The write of file B fails after file A got a new content.
WriteFailureWitness ==
    /\ pc = "io_error"
    /\ pending = {"B"}
    /\ "A" \in DOMAIN fcs
    /\ files["A"] # InitFiles["A"]
    /\ files["A"] = SimultaneousReplace(InitFiles["A"], fcs["A"], 0)

\* FileChangeSet::group has returned.
GroupReturned == report # <<>>

\* The places in the Change list of the changes of file f, in order.
PlacesOf(changes, f) ==
    SelectSeq([k \in 1..Len(changes) |-> k], LAMBDA k : changes[k].file = f)

JoinedFragments(m, span) ==
    Concat([j \in 1..Len(span.text) |->
               FragmentResult(OperationOf(args), span.text[j], SuggestionsFor(m, span),
                              overflow_checks).text])

\* The places in the Change list of the changes that come from line d.
ChangesOfLine(d) ==
    SelectSeq([k \in 1..Len(changeset) |-> k], LAMBDA k : origin[k][1] = d)

\* Every run of the diagnostic of line d succeeds.
AllRunsSucceed(d) ==
    \A k \in 1..Len(PrimaryKinds(Line(d))) : PrimaryKinds(Line(d))[k] = "ok"

\* C23: for a diagnostic whose runs all succeed, compute_diffs emits one Change
\* for each primary span, in the order of the spans, and none for another
\* span: its file is the span's, its range the span's outer byte range, and
\* its bytes the texts of the span's fragments after the program ran, joined
\* in fragment order.
OneChangePerPrimarySpan ==
    \A i \in 1..Len(processed) :
        AllRunsSucceed(processed[i]) =>
            LET m == Line(processed[i])
                prim == PrimarySpans(m)
                mine == ChangesOfLine(processed[i])
            IN  /\ Len(mine) = Len(prim)
                /\ \A k \in 1..Len(prim) :
                       LET span == m.spans[prim[k]]
                       IN  changeset[mine[k]] =
                               MkChange(span.file_name,
                                        MkPatch(OuterByteRange(span).start,
                                                OuterByteRange(span).end,
                                                JoinedFragments(m, span)))

\* A diagnostic with a primary span of two fragments, a span that is not
\* primary and a second primary span has given two changes, the first with
\* the two rewritten fragments in order.
OneChangePerPrimarySpanWitness ==
    /\ Len(processed) = 1
    /\ AllRunsSucceed(processed[1])
    /\ Len(Line(processed[1]).spans) = 3
    /\ Len(changeset) = 2
    /\ changeset[1].patch.bytes = <<"a", "x", "x", "x", "c">>
    /\ changeset[2].file = "A"

(***************************************************************************)
(* Folding the suggestions of one fragment (operation.rs 306-333): the     *)
(* fragment, its highlighted selection and its suggestions are drawn at    *)
(* the start, each step is one iteration of the loop over the suggestions, *)
(* and the folded text and selection are handed to Operation::run.         *)
(***************************************************************************)
MaxSuggestions == 2

FoldText == <<"a", "b", "c">>

FoldRanges == {MkSpan(s, e) : s \in 0..Len(FoldText), e \in 0..Len(FoldText)}
                  \cap {sp \in [start : 0..Len(FoldText), end : 0..Len(FoldText)] :
                           sp.start <= sp.end}

FoldReplacements == {<<>>, <<"y">>, <<"y", "z">>}

\* The suggestions of a span as spans_with_suggestions returns them: sorted by
\* the start of their ranges.
FoldSuggestionLists ==
    {SortSuggestions(l) :
        l \in SeqsUpTo([range : FoldRanges, text : FoldReplacements], MaxSuggestions)}

InitFold ==
    /\ MainAtRest
    /\ args = [NoArgs EXCEPT !.suggestion = TRUE]
    /\ overflow_checks \in BOOLEAN
    /\ pc = "fold"
    /\ interp = Idle
    /\ pre = Idle
    /\ \E sugg \in FoldSuggestionLists, sel \in FoldRanges :
           call = [status |-> "folding", raw |-> FoldText, sugg |-> sugg,
                   left |-> Len(sugg), sel |-> sel, text |-> FoldText,
                   was |-> [sel |-> sel, text |-> FoldText]]

\* One iteration of the loop over suggestions.into_iter().rev().
FoldStep ==
    /\ pc = "fold"
    /\ call.status = "folding"
    /\ call.left > 0
    /\ \E r \in {FoldOne(call.sugg[call.left], call.sel, call.text, overflow_checks)} :
           call' = [call EXCEPT !.status = IF r.ok THEN "folding" ELSE "panic",
                                !.left = call.left - 1,
                                !.sel = r.sel,
                                !.text = r.text,
                                !.was = [sel |-> call.sel, text |-> call.text]]
    /\ UNCHANGED <<files, args, overflow_checks, diags, idx, changeset,
                   list_summary, fcs, pending, report, pc, origin, processed,
                   aborted, interp, pre>>

\* self.run(&mut new_text, selection.clone()) is entered.
HandToRun ==
    /\ pc = "fold"
    /\ call.status = "folding"
    /\ call.left = 0
    /\ call' = [call EXCEPT !.status = "run"]
    /\ interp' = StartRun(args.ops, call.text, call.sel)
    /\ UNCHANGED <<files, args, overflow_checks, diags, idx, changeset,
                   list_summary, fcs, pending, report, pc, origin, processed,
                   aborted, pre>>

NextFold == FoldStep \/ HandToRun

SpecFold == InitFold /\ [][NextFold]_vars

\* Two ranges share a byte, or one is empty and strictly inside the other.
Overlap(a, b) == a.start < b.end /\ b.start < a.end

NonOverlapping(sugg) ==
    \A i \in 1..Len(sugg) : \A j \in (i + 1)..Len(sugg) :
        ~Overlap(sugg[i].range, sugg[j].range)

\* Suggestions in the order of their ranges' starts, then ends, ties in input
\* order.
RECURSIVE OrderByRange(_)
OrderByRange(ss) ==
    IF ss = <<>> THEN <<>>
    ELSE LET sorted == OrderByRange(SubSeq(ss, 1, Len(ss) - 1))
             s == ss[Len(ss)]
             k == Cardinality({i \in 1..Len(sorted) :
                                   \/ sorted[i].range.start < s.range.start
                                   \/ /\ sorted[i].range.start = s.range.start
                                      /\ sorted[i].range.end <= s.range.end})
         IN  SubSeq(sorted, 1, k) \o <<s>> \o SubSeq(sorted, k + 1, Len(sorted))

\* All suggestions applied to the raw text at once: the raw text between the
\* ranges, and each replacement in the place of its range.
RECURSIVE SimultaneousFrom(_, _, _, _)
SimultaneousFrom(raw, ordered, k, pos) ==
    IF k > Len(ordered) THEN Slice(raw, pos, Len(raw))
    ELSE Slice(raw, pos, ordered[k].range.start) \o ordered[k].text
             \o SimultaneousFrom(raw, ordered, k + 1, ordered[k].range.end)

Simultaneous(raw, sugg) == SimultaneousFrom(raw, OrderByRange(sugg), 1, 0)

\* A suggestion has just been folded in, or has just made the fold panic.
JustFolded == pc = "fold" /\ call.status \in {"folding", "panic"} /\ call.left < Len(call.sugg)

LastFolded == call.sugg[call.left + 1]

\* C24: for suggestions whose ranges do not overlap one another, each
\* suggestion's range holds, when the suggestion is applied, the bytes it held
\* in the raw text, and the text handed to the run is the raw text with all
\* the suggestions applied at once.
FoldIsSimultaneous ==
    (pc = "fold" /\ NonOverlapping(call.sugg)) =>
        /\ (JustFolded /\ SliceOk(call.was.text, LastFolded.range.start, LastFolded.range.end)) =>
               Slice(call.was.text, LastFolded.range.start, LastFolded.range.end)
                   = Slice(call.raw, LastFolded.range.start, LastFolded.range.end)
        /\ call.status = "run" => interp.hay = Simultaneous(call.raw, call.sugg)

\* The selection a reference that tracks every byte shift gives after the
\* suggestion s, for a selection that s does not overlap: the same selection
\* when s lies after it, both ends moved by the change of length when s lies
\* before it (either, when both are empty at the same place).
TrackedSelections(s, sel) ==
    LET shift == Len(s.text) - (s.range.end - s.range.start)
    IN  (IF s.range.start >= sel.end THEN {sel} ELSE {})
            \cup (IF s.range.end <= sel.start
                  THEN {MkSpan(sel.start + shift, sel.end + shift)} ELSE {})

\* C25: a suggestion that does not overlap the selection is folded in without
\* a panic, the re-anchored selection is the one of the reference that tracks
\* every byte shift, and it covers in the rewritten text the text that the
\* selection covered before.
ReanchoringTracksShifts ==
    (/\ JustFolded
     /\ call.was.sel.start <= call.was.sel.end
     /\ call.was.sel.end <= Len(call.was.text)
     /\ LastFolded.range.end <= Len(call.was.text)
     /\ ~Overlap(LastFolded.range, call.was.sel)) =>
        /\ call.status # "panic"
        /\ call.sel \in TrackedSelections(LastFolded, call.was.sel)
        /\ Slice(call.text, call.sel.start, call.sel.end)
               = Slice(call.was.text, call.was.sel.start, call.was.sel.end)

\* The first arm's subtractions go below zero for the suggestion s.
Underflows(s, sel) ==
    s.range.end <= sel.start /\ (Len(s.text) > sel.start \/ Len(s.text) > sel.end)

\* C29: no subtraction of the fold underflows, and the selection handed to
\* the run is a range of the rewritten text: start <= end <= its length.
FoldedSelectionValid ==
    /\ JustFolded => ~Underflows(LastFolded, call.was.sel)
    /\ (pc = "fold" /\ call.status = "run") =>
           /\ interp.span.start <= interp.span.end
           /\ interp.span.end <= Len(interp.hay)

\* No line after the first line that the selector accepts has been consumed.
ConsumptionHalts ==
    \A e \in 1..Len(diags) : AcceptedAt(e) => idx <= e + 1

\* At most one diagnostic has been handed to compute_diffs, the first that the
\* selector accepts, and the loop is over after it; its changes, and no
\* others, are the Change list; they are what group returns; and in write
\* mode they are what the files hold when the run is done.
FirstMatchOnly ==
    /\ Len(processed) <= 1
    /\ processed # <<>> =>
           LET d == processed[1]
               r == ComputeDiffs(OperationOf(args), Line(d), overflow_checks)
           IN  /\ \A e \in 1..(d - 1) : ~AcceptedAt(e)
               /\ pc # "loop"
               /\ changeset = IF r.kind = "ok" THEN r.changes ELSE <<>>
               /\ \A k \in 1..Len(origin) : origin[k][1] = d
    /\ processed = <<>> => changeset = <<>>
    /\ pc \in {"write", "done", "io_error"} =>
           /\ report = <<Len(changeset), Cardinality(FilesOf(changeset))>>
           /\ \A f \in FilesOf(changeset) :
                  fcs[f] = SortByStart(PatchesOf(changeset, f))
    /\ (pc = "done" /\ args.write) =>
           \A f \in File :
               files[f] = SimultaneousReplace(InitFiles[f],
                                              SortByStart(PatchesOf(changeset, f)), 0)

PopsIn(a) ==
    \E i \in 1..Len(a) :
        LET ms == TemplateMatches(TokenBytes(a[i]), 0)
        IN  \E k \in 1..Len(ms) : ms[k].name = <<"p", "o", "p">>

\* C27: delete, replace, substitute and substitute-all leave the buffer before
\* the selection start and from the selection end on as they were, and leave
\* the selection start where it was, delete with an empty selection there;
\* every other operation leaves the buffer as it was; the stack changes only
\* by stack-push, stack-drop, stack-dup and a pop placeholder in an argument.
WritersTouchSelectionOnly ==
    (LastOp # "" /\ interp.status # "panic") =>
        /\ IF /\ LastOp \in {"Delete", "Replace", "Substitute", "SubstituteAll"}
              /\ SliceOk(pre.hay, pre.span.start, pre.span.end)
           THEN /\ Len(interp.hay) >= Len(pre.hay) - (pre.span.end - pre.span.start)
                /\ Slice(interp.hay, 0, pre.span.start)
                       = Slice(pre.hay, 0, pre.span.start)
                /\ Slice(interp.hay, Len(interp.hay) - (Len(pre.hay) - pre.span.end),
                         Len(interp.hay))
                       = Slice(pre.hay, pre.span.end, Len(pre.hay))
                /\ interp.span.start = pre.span.start
                /\ (LastOp = "Delete" /\ interp.status = "running") =>
                       /\ interp.span.end = interp.span.start
                       /\ NewlyWritten = <<>>
           ELSE interp.hay = pre.hay
        /\ interp.stack # pre.stack =>
               \/ LastOp \in {"StackPush", "StackDrop", "StackDup"}
               \/ PopsIn(LastArgs)

\* A replace with a pop placeholder has rewritten a selection with bytes
\* before and after it, and has taken the value off the stack.
PopTouchWitness ==
    /\ LastOp = "Replace"
    /\ interp.status = "running"
    /\ pre.span.start > 0
    /\ pre.span.end < Len(pre.hay)
    /\ pre.stack # <<>>
    /\ interp.stack = <<>>

\* A delete has removed a selection with bytes before and after it.
DeleteTouchWitness ==
    /\ LastOp = "Delete"
    /\ interp.status = "running"
    /\ pre.span.start > 0
    /\ pre.span.end < Len(pre.hay)
    /\ Len(interp.hay) < Len(pre.hay)

\* C28: each iteration of the run ends as its own operation does, whatever
\* the tokens after it are: an unknown mnemonic, a mnemonic with too few
\* arguments and an invalid regex fail the run only at the iteration that has
\* them at the head of the queue, every iteration before it having succeeded;
\* after the first failure no iteration follows and the tokens left are not
\* looked at; NoMatches does not stop the batch and the three defects do.
FirstFailureDecides ==
    /\ (pc = "interp" /\ pre.status = "running" /\ pre.ops # <<>>) =>
           IF FromStr(Head(pre.ops)) = "" THEN interp.status = "UnknownOp"
           ELSE IF Len(Tail(pre.ops)) < Argc(FromStr(Head(pre.ops)))
           THEN interp.status = "NotEnoughArguments"
           ELSE /\ interp.status
                       = IF Apply(LastOp, pre, LastArgs).kind = "ok" THEN "running"
                         ELSE Apply(LastOp, pre, LastArgs).kind
                /\ interp.ops = SubSeq(pre.ops, 2 + Argc(LastOp), Len(pre.ops))
    /\ (pc = "interp" /\ interp.status # "running") => ~ENABLED RunStep
    /\ ~StopAll("NoMatches")
    /\ \A kind \in {"UnknownOp", "NotEnoughArguments", "InvalidRegex"} : StopAll(kind)

\* A run has ended with NoMatches, and the token after the failed operation
\* spells no mnemonic.
NoMatchesBeforeUnknownWitness ==
    /\ pc = "interp"
    /\ interp.status = "NoMatches"
    /\ interp.ops # <<>>
    /\ FromStr(Head(interp.ops)) = ""

\* A run has ended with NoMatches before a mnemonic with no argument after it.
NoMatchesBeforeMissingWitness ==
    /\ pc = "interp"
    /\ interp.status = "NoMatches"
    /\ interp.ops = <<"first">>

\* A run has ended with NoMatches before a search with an invalid regex.
NoMatchesBeforeRegexWitness ==
    /\ pc = "interp"
    /\ interp.status = "NoMatches"
    /\ interp.ops = <<"first", "(">>

====
